---------------------------- MODULE Spec2Model ----------------------------
(***************************************************************************)
(* A model of mpdsonic, a gateway that serves the Subsonic REST protocol   *)
(* on top of an MPD server.                                                *)
(*                                                                         *)
(* Text is modelled as a sequence of one-character strings, so that the    *)
(* prefix test, the hex rendering and the digest of the authentication     *)
(* guard are computed and not assumed.                                     *)
(***************************************************************************)
EXTENDS Integers, Sequences, FiniteSets, Bags, TLC

(***************************************************************************)
(* Text and bytes.                                                         *)
(***************************************************************************)

\* The printable ASCII characters, code 32 first (the double quote, the
\* backslash and the backtick are named, not written).
AsciiChars ==
  <<" ", "!", "DQUOTE", "#", "$", "%", "&", "'", "(", ")", "*", "+", ",", "-", ".", "/",
    "0", "1", "2", "3", "4", "5", "6", "7", "8", "9", ":", ";", "<", "=", ">", "?",
    "@", "A", "B", "C", "D", "E", "F", "G", "H", "I", "J", "K", "L", "M", "N", "O",
    "P", "Q", "R", "S", "T", "U", "V", "W", "X", "Y", "Z", "[", "BACKSLASH", "]", "^", "_",
    "BACKTICK", "a", "b", "c", "d", "e", "f", "g", "h", "i", "j", "k", "l", "m", "n", "o",
    "p", "q", "r", "s", "t", "u", "v", "w", "x", "y", "z", "{", "|", "}", "~">>

\* The names of the control characters 0..31; 127 is "DEL".  A character
\* past ASCII is named by the number of its code point.
ControlNames ==
  <<"NUL", "SOH", "STX", "ETX", "EOT", "ENQ", "ACK", "BEL", "BS", "TAB", "LF",
    "VT", "FF", "CR", "SO", "SI", "DLE", "DC1", "DC2", "DC3", "DC4", "NAK",
    "SYN", "ETB", "CAN", "EM", "SUB", "ESC", "FS", "GS", "RS", "US">>

\* The code point of a character.
Ord(c) ==
  IF \E i \in 1..Len(AsciiChars) : AsciiChars[i] = c
  THEN 31 + (CHOOSE i \in 1..Len(AsciiChars) : AsciiChars[i] = c)
  ELSE IF \E i \in 1..Len(ControlNames) : ControlNames[i] = c
  THEN (CHOOSE i \in 1..Len(ControlNames) : ControlNames[i] = c) - 1
  ELSE IF c = "DEL" THEN 127
  ELSE IF \E cp \in 128..255 : ToString(cp) = c
  THEN CHOOSE cp \in 128..255 : ToString(cp) = c
  ELSE IF \E cp \in 256..65535 : ToString(cp) = c
  THEN CHOOSE cp \in 256..65535 : ToString(cp) = c
  ELSE CHOOSE cp \in 65536..1114111 : ToString(cp) = c

\* char::encode_utf8
Utf8Encode(cp) ==
  IF cp < 128 THEN <<cp>>
  ELSE IF cp < 2048 THEN <<192 + (cp \div 64), 128 + (cp % 64)>>
  ELSE IF cp < 65536
  THEN <<224 + (cp \div 4096), 128 + ((cp \div 64) % 64), 128 + (cp % 64)>>
  ELSE <<240 + (cp \div 262144), 128 + ((cp \div 4096) % 64),
         128 + ((cp \div 64) % 64), 128 + (cp % 64)>>

\* str.as_bytes(): the UTF-8 bytes of a text.
RECURSIVE as_bytes(_)
as_bytes(s) ==
  IF s = <<>> THEN <<>> ELSE Utf8Encode(Ord(Head(s))) \o as_bytes(Tail(s))

HexDigits ==
  <<"0", "1", "2", "3", "4", "5", "6", "7", "8", "9", "a", "b", "c", "d", "e", "f">>

\* Two lowercase hex digits of one byte.
HexByte(b) == <<HexDigits[(b \div 16) + 1], HexDigits[(b % 16) + 1]>>

RECURSIVE HexBytes(_)
HexBytes(bs) ==
  IF bs = <<>> THEN <<>> ELSE HexByte(Head(bs)) \o HexBytes(Tail(bs))

\* hex::encode(text): lowercase hex of the text's bytes.
hex_encode(s) == HexBytes(as_bytes(s))

\* str::starts_with
starts_with(s, prefix) ==
  /\ Len(s) >= Len(prefix)
  /\ SubSeq(s, 1, Len(prefix)) = prefix

\* constant_time_eq::constant_time_eq: equality of two byte strings (the
\* timing is not modelled, the verdict is).
constant_time_eq(a, b) ==
  /\ Len(a) = Len(b)
  /\ \A i \in 1..Len(a) : a[i] = b[i]

(***************************************************************************)
(* MD5 (RFC 1321), as md5::compute evaluates it.  A 32-bit word is a pair  *)
(* <<high 16 bits, low 16 bits>>.                                          *)
(***************************************************************************)

RECURSIVE And16(_, _, _)
And16(x, y, n) ==
  IF n = 0 THEN 0
  ELSE (x % 2) * (y % 2) + 2 * And16(x \div 2, y \div 2, n - 1)

\* The bitwise and of two 4-bit numbers, tabulated.
And4 == [x \in 0..15 |-> [y \in 0..15 |-> And16(x, y, 4)]]

\* The bitwise and of two 16-bit numbers, nibble by nibble.
AndHalf(x, y) ==
  And4[x \div 4096][y \div 4096] * 4096
  + And4[(x \div 256) % 16][(y \div 256) % 16] * 256
  + And4[(x \div 16) % 16][(y \div 16) % 16] * 16
  + And4[x % 16][y % 16]

WAnd(a, b) == <<AndHalf(a[1], b[1]), AndHalf(a[2], b[2])>>
WNot(a) == <<65535 - a[1], 65535 - a[2]>>
WOr(a, b) ==
  <<a[1] + b[1] - AndHalf(a[1], b[1]), a[2] + b[2] - AndHalf(a[2], b[2])>>
WXor(a, b) ==
  <<a[1] + b[1] - 2 * AndHalf(a[1], b[1]),
    a[2] + b[2] - 2 * AndHalf(a[2], b[2])>>

\* Addition modulo 2^32.
WAdd(a, b) ==
  LET lo == a[2] + b[2]
      hi == a[1] + b[1] + (lo \div 65536)
  IN  <<hi % 65536, lo % 65536>>

Pow2(n) == 2 ^ n

\* Rotation to the left by s bits, 0 < s < 32.
WRotl(a, s) ==
  LET w == IF s >= 16 THEN <<a[2], a[1]>> ELSE a
      r == s % 16
  IN  <<((w[1] * Pow2(r)) % 65536) + (w[2] \div Pow2(16 - r)),
        ((w[2] * Pow2(r)) % 65536) + (w[1] \div Pow2(16 - r))>>

MD5K ==
  <<<<55146, 42104>>, <<59591, 46934>>, <<9248, 28891>>, <<49597, 52974>>,
    <<62844, 4015>>, <<18311, 50730>>, <<43056, 17939>>, <<64838, 38145>>,
    <<27008, 39128>>, <<35652, 63407>>, <<65535, 23473>>, <<35164, 55230>>,
    <<27536, 4386>>, <<64920, 29075>>, <<42617, 17294>>, <<18868, 2081>>,
    <<63006, 9570>>, <<49216, 45888>>, <<9822, 23121>>, <<59830, 51114>>,
    <<54831, 4189>>, <<580, 5203>>, <<55457, 59009>>, <<59347, 64456>>,
    <<8673, 52710>>, <<49975, 2006>>, <<62677, 3463>>, <<17754, 5357>>,
    <<43491, 59653>>, <<64751, 41976>>, <<26479, 729>>, <<36138, 19594>>,
    <<65530, 14658>>, <<34673, 63105>>, <<28061, 24866>>, <<64997, 14348>>,
    <<42174, 59972>>, <<19422, 53161>>, <<63163, 19296>>, <<48831, 48240>>,
    <<10395, 32454>>, <<60065, 10234>>, <<54511, 12421>>, <<1160, 7429>>,
    <<55764, 53305>>, <<59099, 39397>>, <<8098, 31992>>, <<50348, 22117>>,
    <<62505, 8772>>, <<17194, 65431>>, <<43924, 9127>>, <<64659, 41017>>,
    <<25947, 22979>>, <<36620, 52370>>, <<65519, 62589>>, <<34180, 24017>>,
    <<28584, 32335>>, <<65068, 59104>>, <<41729, 17172>>, <<19976, 4513>>,
    <<63315, 32386>>, <<48442, 62005>>, <<10967, 53947>>, <<60294, 54161>>>>

MD5S ==
  <<7, 12, 17, 22, 7, 12, 17, 22, 7, 12, 17, 22, 7, 12, 17, 22,
    5, 9, 14, 20, 5, 9, 14, 20, 5, 9, 14, 20, 5, 9, 14, 20,
    4, 11, 16, 23, 4, 11, 16, 23, 4, 11, 16, 23, 4, 11, 16, 23,
    6, 10, 15, 21, 6, 10, 15, 21, 6, 10, 15, 21, 6, 10, 15, 21>>

MD5Init == <<<<26437, 8961>>, <<61389, 43913>>, <<39098, 56574>>, <<4146, 21622>>>>

\* The message padded to a multiple of 64 bytes: 0x80, zeros, and the bit
\* length as 64 bits, least significant byte first.
MD5Pad(bs) ==
  LET n     == Len(bs)
      zeros == (55 - n) % 64
      bits  == n * 8
  IN  bs \o <<128>> \o [i \in 1..zeros |-> 0]
         \o <<bits % 256, (bits \div 256) % 256, (bits \div 65536) % 256,
              (bits \div 16777216) % 256, 0, 0, 0, 0>>

\* Word j (0..15) of the block starting at byte offset off, little-endian.
MD5Word(bs, off, j) ==
  <<bs[off + 4 * j + 3] + 256 * bs[off + 4 * j + 4],
    bs[off + 4 * j + 1] + 256 * bs[off + 4 * j + 2]>>

\* Round i (0..63) on the state st = <<a, b, c, d>>.
MD5Step(st, bs, off, i) ==
  LET a == st[1]
      b == st[2]
      c == st[3]
      d == st[4]
      f == IF i < 16 THEN WOr(WAnd(b, c), WAnd(WNot(b), d))
           ELSE IF i < 32 THEN WOr(WAnd(d, b), WAnd(WNot(d), c))
           ELSE IF i < 48 THEN WXor(b, WXor(c, d))
           ELSE WXor(c, WOr(b, WNot(d)))
      g == IF i < 16 THEN i
           ELSE IF i < 32 THEN (5 * i + 1) % 16
           ELSE IF i < 48 THEN (3 * i + 5) % 16
           ELSE (7 * i) % 16
      x == WAdd(WAdd(a, f), WAdd(MD5K[i + 1], MD5Word(bs, off, g)))
  IN  <<d, WAdd(b, WRotl(x, MD5S[i + 1])), b, c>>

\* Rounds i to j - 1 on one block, by halves; the state between the halves
\* is bound as a value.
RECURSIVE MD5Range(_, _, _, _, _)
MD5Range(st, bs, off, i, j) ==
  IF j = i + 1 THEN MD5Step(st, bs, off, i)
  ELSE CHOOSE r \in {MD5Range(mid, bs, off, (i + j) \div 2, j) :
                       mid \in {MD5Range(st, bs, off, i, (i + j) \div 2)}} : TRUE

\* The 64 rounds on one block.
MD5Rounds(st, bs, off) == MD5Range(st, bs, off, 0, 64)

\* Block by block, the rounds' result added to the state before the block.
RECURSIVE MD5Blocks(_, _, _)
MD5Blocks(h, bs, off) ==
  IF off >= Len(bs) THEN h
  ELSE CHOOSE r \in
         {MD5Blocks(nxt, bs, off + 64) :
            nxt \in {<<WAdd(h[1], q[1]), WAdd(h[2], q[2]),
                       WAdd(h[3], q[3]), WAdd(h[4], q[4])>> :
                       q \in {MD5Rounds(h, bs, off)}}} : TRUE

\* The four bytes of a word, least significant first.
WBytes(w) == <<w[2] % 256, w[2] \div 256, w[1] % 256, w[1] \div 256>>

\* md5::compute(data): the 16 digest bytes.
md5_compute(bs) ==
  LET h == MD5Blocks(MD5Init, MD5Pad(bs), 0)
  IN  WBytes(h[1]) \o WBytes(h[2]) \o WBytes(h[3]) \o WBytes(h[4])

\* format!("{:?}", digest): md5::Digest renders as 32 lowercase hex digits.
digest_debug(d) == HexBytes(d)


(***************************************************************************)
(* Option values and the query string.  A query is the sequence of its     *)
(* <<key, value>> pairs as url decoding yields them; a key may repeat.     *)
(***************************************************************************)

None == [some |-> FALSE]
Some(x) == [some |-> TRUE, v |-> x]

\* The values a key carries in the query, in order.
RECURSIVE QueryValues(_, _)
QueryValues(q, k) ==
  IF q = <<>> THEN <<>>
  ELSE (IF Head(q)[1] = k THEN <<Head(q)[2]>> ELSE <<>>) \o QueryValues(Tail(q), k)

\* An Option<String> field of a derived Deserialize: absent is None.
OptField(q, k) ==
  IF QueryValues(q, k) = <<>> THEN None ELSE Some(QueryValues(q, k)[1])

\* serde's derived visitor rejects a repeated field of the structure.
Duplicated(q, keys) == \E k \in keys : Len(QueryValues(q, k)) > 1

(***************************************************************************)
(* The API error (api/error.rs) and the Reply trait (api.rs).              *)
(***************************************************************************)

VERSION == "1.16.1"

Error_new(code, message) == [type |-> "Error", code |-> code, message |-> message]

generic_error(msg) ==
  IF msg.some THEN Error_new(0, <<"A generic error: ", msg.v>>)
  ELSE Error_new(0, <<"A generic error">>)

missing_parameter(msg) == Error_new(10, <<"Required parameter is missing: ", msg>>)

\* authentication_failed with the code of a missing parameter.
authentication_failed_as_missing ==
  Error_new(10, <<"Wrong username or password">>)

authentication_failed == Error_new(40, <<"Wrong username or password">>)

not_authorized(msg) == Error_new(50, <<msg>>)

not_found == Error_new(70, <<"The requested data was not found">>)

\* The conversion of a rejected query into the authentication error.
From_QueryRejection_as_authentication(err) == authentication_failed

\* impl From<rejection::QueryRejection> for Error
From_QueryRejection(err) == missing_parameter(err)

\* impl From<rejection::ExtensionRejection> for Error
From_ExtensionRejection == generic_error(None)

\* The conversion of a pool error with the code of a missing parameter.
From_RunError_as_missing(err) == missing_parameter(err)

\* impl From<bb8::RunError<mpd::Error>> for Error
From_RunError(err) == generic_error(Some(err))

\* impl From<mpd_client::client::CommandError> for Error
From_CommandError(err) == generic_error(Some(err))

\* library::Error::is_not_found: an I/O or NFS error of the kind NotFound,
\* or an HTTP error with the status 404.
is_not_found(err) ==
  \/ err.variant \in {"IO", "NFS"} /\ err.kind = "NotFound"
  \/ err.variant = "Http" /\ err.status = Some(404)

\* impl From<library::Error> for Error
From_library_Error(err) ==
  IF is_not_found(err) THEN not_found ELSE generic_error(None)

\* impl From<std::io::Error> for Error
From_io_Error(err) == generic_error(Some(err))

\* impl fmt::Display for listenbrainz::Error: write!(f, "{self:?}"), the
\* derived Debug form: the name of the variant, around the Debug form of
\* what it holds.
listenbrainz_Error_fmt(err) ==
  CASE err.variant = "Song"   -> "Song"
    [] err.variant = "Http"   -> "Http(" \o err.inner \o ")"
    [] err.variant = "Header" -> "Header(" \o err.inner \o ")"

\* impl From<listenbrainz::Error> for Error
From_listenbrainz_Error(err) == generic_error(Some(listenbrainz_Error_fmt(err)))

\* Reply::is_error: false by default, true for Error alone.
is_error(T) == T = "Error"

\* Reply::field_name of every reply type.
field_name(T) ==
  CASE T = "Error"           -> Some("error")
    [] T = "Empty"           -> None
    [] T = "License"         -> Some("license")
    [] T = "GetUser"         -> Some("user")
    [] T = "GetPlaylist"     -> Some("playlist")
    [] T = "GetPlaylists"    -> Some("playlists")
    [] T = "GetMusicFolders" -> Some("musicFolders")
    [] T = "GetArtists"      -> Some("artists")
    [] T = "GetArtist"       -> Some("artist")
    [] T = "ArtistInfo2"     -> Some("artistInfo2")
    [] T = "GetAlbum"        -> Some("album")
    [] T = "ScanStatus"      -> Some("scanStatus")

\* IntoReply::into_reply: () becomes Empty, a reply is itself.
into_reply(r) == IF r.type = "unit" THEN [type |-> "Empty"] ELSE r

(***************************************************************************)
(* Reply serialization (api.rs).                                           *)
(***************************************************************************)

\* serialization_format: SerializationQuery{f, callback} of the raw query,
\* the default (both None) when the query does not deserialize.
serialization_format(q) ==
  IF Duplicated(q, {"f", "callback"})
  THEN [f |-> None, callback |-> None]
  ELSE [f |-> OptField(q, "f"), callback |-> OptField(q, "callback")]

\* xml(reply): the root element, its attributes, and the reply as its child
\* when the reply type names a field.
xml(reply) ==
  [root     |-> "subsonic-response",
   xmlns    |-> "http://subsonic.org/restapi",
   status   |-> IF is_error(reply.type) THEN "failed" ELSE "ok",
   version  |-> VERSION,
   children |-> IF field_name(reply.type).some THEN <<reply>> ELSE <<>>]

\* json with the status ok whatever the reply.
json_always_ok(reply) ==
  [root    |-> "subsonic-response",
   entries |-> <<<<"status", "ok">>, <<"version", VERSION>>>>
               \o (IF field_name(reply.type).some
                   THEN <<<<field_name(reply.type).v, reply>>>>
                   ELSE <<>>)]

\* json(reply): the map under "subsonic-response", entries in order.
json(reply) ==
  [root    |-> "subsonic-response",
   entries |-> <<<<"status", IF is_error(reply.type) THEN "failed" ELSE "ok">>,
                 <<"version", VERSION>>>>
               \o (IF field_name(reply.type).some
                   THEN <<<<field_name(reply.type).v, reply>>>>
                   ELSE <<>>)]

T_json == <<"j", "s", "o", "n">>
T_jsonp == <<"j", "s", "o", "n", "p">>

\* serialize_reply with the jsonp arm tried first: f=json with a callback is
\* wrapped in the callback.
serialize_reply_callback_first(reply, format) ==
  IF format.f \in {Some(T_json), Some(T_jsonp)} /\ format.callback.some
  THEN [kind |-> "envelope", format |-> "jsonp",
        content_type |-> "text/javascript",
        callback |-> format.callback.v, body |-> json(reply)]
  ELSE IF format.f = Some(T_json)
  THEN [kind |-> "envelope", format |-> "json",
        content_type |-> "application/json", body |-> json(reply)]
  ELSE [kind |-> "envelope", format |-> "xml",
        content_type |-> "text/xml", body |-> xml(reply)]

\* serialize_reply: the response for a reply in the requested format.
serialize_reply(reply, format) ==
  IF format.f = Some(T_json)
  THEN [kind |-> "envelope", format |-> "json",
        content_type |-> "application/json", body |-> json(reply)]
  ELSE IF format.f = Some(T_jsonp) /\ format.callback.some
  THEN [kind |-> "envelope", format |-> "jsonp",
        content_type |-> "text/javascript",
        callback |-> format.callback.v, body |-> json(reply)]
  ELSE [kind |-> "envelope", format |-> "xml",
        content_type |-> "text/xml", body |-> xml(reply)]

(***************************************************************************)
(* The authentication guard (api.rs).                                      *)
(***************************************************************************)

T_enc == <<"e", "n", "c", ":">>

\* Authentication::new
Authentication_new(username, password) ==
  [username         |-> username,
   password         |-> password,
   encoded_password |-> T_enc \o hex_encode(password)]

\* Query::<AuthenticationQuery>::from_request_parts: u is required, p, t and
\* s are optional, and none may repeat.  The rejection displays as the text
\* of its kind, without the detail of the field.
AuthenticationQuery(q) ==
  IF Duplicated(q, {"u", "p", "t", "s"}) \/ QueryValues(q, "u") = <<>>
  THEN [ok |-> FALSE, err |-> "Failed to deserialize query string"]
  ELSE [ok |-> TRUE, u |-> QueryValues(q, "u")[1], p |-> OptField(q, "p"),
        t |-> OptField(q, "t"), s |-> OptField(q, "s")]

\* The match of authenticate with the plaintext arm before the marker arms.
authenticate_match_plaintext_first(aq, auth) ==
  LET valid_user == constant_time_eq(as_bytes(aq.u), as_bytes(auth.username))
  IN  IF /\ aq.p.some
         /\ constant_time_eq(as_bytes(aq.p.v), as_bytes(auth.password))
         /\ valid_user
      THEN None
      ELSE IF /\ aq.p.some
              /\ starts_with(aq.p.v, T_enc)
              /\ constant_time_eq(as_bytes(aq.p.v), as_bytes(auth.encoded_password))
              /\ valid_user
      THEN None
      ELSE IF aq.p.some
      THEN Some(authentication_failed)
      ELSE IF /\ aq.t.some
              /\ aq.s.some
              /\ constant_time_eq(
                   as_bytes(aq.t.v),
                   as_bytes(digest_debug(
                     md5_compute(as_bytes(auth.password \o aq.s.v)))))
              /\ valid_user
      THEN None
      ELSE IF aq.t.some /\ aq.s.some
      THEN Some(authentication_failed)
      ELSE Some(missing_parameter("either username or password is missing"))

\* The match of authenticate on (p, t, s), arm by arm: None admits.
authenticate_match(aq, auth) ==
  LET valid_user == constant_time_eq(as_bytes(aq.u), as_bytes(auth.username))
  IN  IF /\ aq.p.some
         /\ starts_with(aq.p.v, T_enc)
         /\ constant_time_eq(as_bytes(aq.p.v), as_bytes(auth.encoded_password))
         /\ valid_user
      THEN None
      ELSE IF aq.p.some /\ starts_with(aq.p.v, T_enc)
      THEN Some(authentication_failed)
      ELSE IF /\ aq.p.some
              /\ constant_time_eq(as_bytes(aq.p.v), as_bytes(auth.password))
              /\ valid_user
      THEN None
      ELSE IF aq.p.some
      THEN Some(authentication_failed)
      ELSE IF /\ aq.t.some
              /\ aq.s.some
              /\ constant_time_eq(
                   as_bytes(aq.t.v),
                   as_bytes(digest_debug(
                     md5_compute(as_bytes(auth.password \o aq.s.v)))))
              /\ valid_user
      THEN None
      ELSE IF aq.t.some /\ aq.s.some
      THEN Some(authentication_failed)
      ELSE Some(missing_parameter("either username or password is missing"))

\* authenticate: the error that ends the request in the guard, or None.
authenticate(q, auth) ==
  LET aq == AuthenticationQuery(q)
  IN  IF aq.ok THEN authenticate_match(aq, auth)
      ELSE Some(From_QueryRejection(aq.err))

(***************************************************************************)
(* The entity identifiers (api/types.rs): the JSON of the fields, in base64 *)
(* of the standard alphabet with canonical padding.  The JSON is read as    *)
(* serde_json reads it: white space between the tokens, every escape, text *)
(* in UTF-8, values of every kind; a structure is read from an object or   *)
(* from an array, a variant of the untagged CoverArtID from the buffered   *)
(* object.                                                                  *)
(***************************************************************************)

B64Alphabet ==
  <<"A", "B", "C", "D", "E", "F", "G", "H", "I", "J", "K", "L", "M", "N", "O", "P",
    "Q", "R", "S", "T", "U", "V", "W", "X", "Y", "Z", "a", "b", "c", "d", "e", "f",
    "g", "h", "i", "j", "k", "l", "m", "n", "o", "p", "q", "r", "s", "t", "u", "v",
    "w", "x", "y", "z", "0", "1", "2", "3", "4", "5", "6", "7", "8", "9", "+", "/">>

\* The 6-bit value of a symbol, -1 for a character outside the alphabet.
B64Val(c) ==
  IF \E i \in 1..64 : B64Alphabet[i] = c
  THEN (CHOOSE i \in 1..64 : B64Alphabet[i] = c) - 1
  ELSE -1

\* BASE64.encode
RECURSIVE base64_encode(_)
base64_encode(bs) ==
  IF bs = <<>> THEN <<>>
  ELSE IF Len(bs) = 1
  THEN <<B64Alphabet[(bs[1] \div 4) + 1], B64Alphabet[((bs[1] % 4) * 16) + 1],
         "=", "=">>
  ELSE IF Len(bs) = 2
  THEN <<B64Alphabet[(bs[1] \div 4) + 1],
         B64Alphabet[((bs[1] % 4) * 16) + (bs[2] \div 16) + 1],
         B64Alphabet[((bs[2] % 16) * 4) + 1], "=">>
  ELSE <<B64Alphabet[(bs[1] \div 4) + 1],
         B64Alphabet[((bs[1] % 4) * 16) + (bs[2] \div 16) + 1],
         B64Alphabet[((bs[2] % 16) * 4) + (bs[3] \div 64) + 1],
         B64Alphabet[(bs[3] % 64) + 1]>>
       \o base64_encode(SubSeq(bs, 4, Len(bs)))

\* The bytes of one group of four symbols; pad counts its trailing "=".
B64Quad(q, pad) ==
  LET a == B64Val(q[1])
      b == B64Val(q[2])
      c == IF pad = 2 THEN 0 ELSE B64Val(q[3])
      d == IF pad >= 1 THEN 0 ELSE B64Val(q[4])
  IN  SubSeq(<<a * 4 + (b \div 16), (b % 16) * 16 + (c \div 4), (c % 4) * 64 + d>>,
             1, 3 - pad)

\* A group is well formed: symbols of the alphabet, and in the last group
\* one or two "=" after symbols whose unused bits are zero.
B64QuadOk(q, last) ==
  LET pad == IF q[4] = "=" THEN (IF q[3] = "=" THEN 2 ELSE 1) ELSE 0
  IN  /\ pad > 0 => last
      /\ \A i \in 1..(4 - pad) : B64Val(q[i]) >= 0
      /\ pad = 1 => B64Val(q[3]) % 4 = 0
      /\ pad = 2 => B64Val(q[2]) % 16 = 0

B64Pad(q) == IF q[4] = "=" THEN (IF q[3] = "=" THEN 2 ELSE 1) ELSE 0

RECURSIVE B64Bytes(_)
B64Bytes(s) ==
  IF s = <<>> THEN <<>>
  ELSE B64Quad(SubSeq(s, 1, 4), B64Pad(SubSeq(s, 1, 4)))
       \o B64Bytes(SubSeq(s, 5, Len(s)))

\* BASE64.decode
base64_decode(s) ==
  IF /\ Len(s) % 4 = 0
     /\ \A g \in 0..((Len(s) \div 4) - 1) :
          B64QuadOk(SubSeq(s, 4 * g + 1, 4 * g + 4), g = (Len(s) \div 4) - 1)
  THEN [ok |-> TRUE, bytes |-> B64Bytes(s)]
  ELSE [ok |-> FALSE]

\* The character of a code point: the ASCII characters by themselves or by
\* their names, every other one by its number.
Chr(b) ==
  IF b \in 32..126 THEN AsciiChars[b - 31]
  ELSE IF b < 32 THEN ControlNames[b + 1]
  ELSE IF b = 127 THEN "DEL"
  ELSE ToString(b)

JQuote == Ord("DQUOTE")
JBackslash == Ord("BACKSLASH")

\* The text written between the quotes as it is.
JsonEscape_verbatim(bs) == bs

\* serde_json's rendering of the bytes of a string: the quote, the
\* backslash and the control characters escaped, every other byte as it is.
RECURSIVE JsonEscape(_)
JsonEscape(bs) ==
  IF bs = <<>> THEN <<>>
  ELSE (IF Head(bs) \in {JQuote, JBackslash} THEN <<JBackslash, Head(bs)>>
        ELSE IF Head(bs) = 8 THEN <<JBackslash, 98>>
        ELSE IF Head(bs) = 9 THEN <<JBackslash, 116>>
        ELSE IF Head(bs) = 10 THEN <<JBackslash, 110>>
        ELSE IF Head(bs) = 12 THEN <<JBackslash, 102>>
        ELSE IF Head(bs) = 13 THEN <<JBackslash, 114>>
        ELSE IF Head(bs) < 32
        THEN <<JBackslash, 117, 48, 48>> \o as_bytes(HexByte(Head(bs)))
        ELSE <<Head(bs)>>) \o JsonEscape(Tail(bs))

JsonString(text) == <<JQuote>> \o JsonEscape(as_bytes(text)) \o <<JQuote>>

\* The compact JSON object of the members <<name, text>>, in order.
RECURSIVE JsonMembers(_)
JsonMembers(ms) ==
  IF ms = <<>> THEN <<>>
  ELSE JsonString(ms[1][1]) \o <<58>> \o JsonString(ms[1][2])
       \o (IF Len(ms) > 1 THEN <<44>> ELSE <<>>) \o JsonMembers(Tail(ms))

JsonObject(ms) == <<123>> \o JsonMembers(ms) \o <<125>>

JsonError == [ok |-> FALSE]

\* The white space of JSON: space, tab, line feed, carriage return.
JsonWs == {32, 9, 10, 13}

\* parse_whitespace: the index of the first byte from bs[i] on that is not
\* white space.
RECURSIVE JsonSkipWs(_, _)
JsonSkipWs(bs, i) ==
  IF i <= Len(bs) /\ bs[i] \in JsonWs THEN JsonSkipWs(bs, i + 1) ELSE i

\* The value of a hex digit, -1 for another byte.
HexVal(b) ==
  IF b \in 48..57 THEN b - 48
  ELSE IF b \in 97..102 THEN b - 87
  ELSE IF b \in 65..70 THEN b - 55
  ELSE -1

\* decode_hex_escape: the number of the four hex digits from bs[i] on, -1
\* when they are not there.
Hex4(bs, i) ==
  IF i + 3 <= Len(bs) /\ \A k \in 0..3 : HexVal(bs[i + k]) >= 0
  THEN HexVal(bs[i]) * 4096 + HexVal(bs[i + 1]) * 256
       + HexVal(bs[i + 2]) * 16 + HexVal(bs[i + 3])
  ELSE -1

\* bs[i] is a continuation byte.
Utf8Cont(bs, i) == i <= Len(bs) /\ bs[i] \in 128..191

\* str::from_utf8: the code points of the bytes from bs[i] on; overlong
\* forms, surrogates and code points past U+10FFFF are refused.
RECURSIVE Utf8Decode(_, _, _)
Utf8Decode(bs, i, acc) ==
  IF i > Len(bs) THEN [ok |-> TRUE, v |-> acc]
  ELSE LET b == bs[i]
       IN  IF b < 128 THEN Utf8Decode(bs, i + 1, Append(acc, b))
           ELSE IF b \in 194..223 /\ Utf8Cont(bs, i + 1)
           THEN Utf8Decode(bs, i + 2,
                           Append(acc, (b - 192) * 64 + (bs[i + 1] - 128)))
           ELSE IF /\ b \in 224..239
                   /\ i + 1 <= Len(bs)
                   /\ bs[i + 1] \in (IF b = 224 THEN 160..191
                                     ELSE IF b = 237 THEN 128..159
                                     ELSE 128..191)
                   /\ Utf8Cont(bs, i + 2)
           THEN Utf8Decode(bs, i + 3,
                           Append(acc, (b - 224) * 4096 + (bs[i + 1] - 128) * 64
                                       + (bs[i + 2] - 128)))
           ELSE IF /\ b \in 240..244
                   /\ i + 1 <= Len(bs)
                   /\ bs[i + 1] \in (IF b = 240 THEN 144..191
                                     ELSE IF b = 244 THEN 128..143
                                     ELSE 128..191)
                   /\ Utf8Cont(bs, i + 2)
                   /\ Utf8Cont(bs, i + 3)
           THEN Utf8Decode(bs, i + 4,
                           Append(acc, (b - 240) * 262144
                                       + (bs[i + 1] - 128) * 4096
                                       + (bs[i + 2] - 128) * 64
                                       + (bs[i + 3] - 128)))
           ELSE [ok |-> FALSE]

\* The escape "\u" with the four hex digits n1, whose last is bs[i - 1], n2
\* the digits of a \u escape that follows: a leading surrogate with a trailing
\* one is the code point of the pair.  A surrogate alone stays as its three
\* bytes, which are not UTF-8: parse_escape, reading a text, refuses it;
\* ignore_escape, skipping the string, only consumes the digits.
JsonReadUnicode(i, n1, n2) ==
  IF n1 < 0 THEN JsonError
  ELSE IF n1 \in 55296..56319 /\ n2 \in 56320..57343
  THEN [ok    |-> TRUE,
        bytes |-> Utf8Encode(65536 + (n1 - 55296) * 1024 + (n2 - 56320)),
        next  |-> i + 6]
  ELSE [ok |-> TRUE, bytes |-> Utf8Encode(n1), next |-> i]

\* parse_escape: the bytes of the escape whose letter is bs[i] and the index
\* after it.
JsonReadEscape(bs, i) ==
  IF i > Len(bs) THEN JsonError
  ELSE IF bs[i] \in {JQuote, JBackslash, 47}
  THEN [ok |-> TRUE, bytes |-> <<bs[i]>>, next |-> i + 1]
  ELSE IF bs[i] = 98 THEN [ok |-> TRUE, bytes |-> <<8>>, next |-> i + 1]
  ELSE IF bs[i] = 102 THEN [ok |-> TRUE, bytes |-> <<12>>, next |-> i + 1]
  ELSE IF bs[i] = 110 THEN [ok |-> TRUE, bytes |-> <<10>>, next |-> i + 1]
  ELSE IF bs[i] = 114 THEN [ok |-> TRUE, bytes |-> <<13>>, next |-> i + 1]
  ELSE IF bs[i] = 116 THEN [ok |-> TRUE, bytes |-> <<9>>, next |-> i + 1]
  ELSE IF bs[i] = 117
  THEN JsonReadUnicode(i + 5, Hex4(bs, i + 1),
                       IF /\ i + 6 <= Len(bs)
                          /\ bs[i + 5] = JBackslash
                          /\ bs[i + 6] = 117
                       THEN Hex4(bs, i + 7) ELSE -1)
  ELSE JsonError

RECURSIVE JsonReadChars(_, _, _)

\* The string goes on after the escape e.
JsonReadCharsAfter(bs, acc, e) ==
  IF e.ok THEN JsonReadChars(bs, e.next, acc \o e.bytes) ELSE JsonError

\* parse_str_bytes: the bytes of the string whose opening quote is before
\* bs[i], up to its closing quote.  A raw control character is refused.
JsonReadChars(bs, i, acc) ==
  IF i > Len(bs) THEN JsonError
  ELSE IF bs[i] = JQuote THEN [ok |-> TRUE, bytes |-> acc, next |-> i + 1]
  ELSE IF bs[i] = JBackslash
  THEN JsonReadCharsAfter(bs, acc, JsonReadEscape(bs, i + 1))
  ELSE IF bs[i] < 32 THEN JsonError
  ELSE JsonReadChars(bs, i + 1, Append(acc, bs[i]))

\* The value of a string whose bytes decode to the code points u: a text
\* when they are UTF-8, else bytes that a reader of a text refuses and a
\* reader that skips the value lets pass.
JsonStringValue(u, next) ==
  [ok   |-> TRUE,
   v    |-> IF u.ok
            THEN [type |-> "string", text |-> [k \in 1..Len(u.v) |-> Chr(u.v[k])]]
            ELSE [type |-> "bytes"],
   next |-> next]

JsonStringOf(r) ==
  IF r.ok THEN JsonStringValue(Utf8Decode(r.bytes, 1, <<>>), r.next)
  ELSE JsonError

\* The string whose opening quote is bs[i].
JsonReadString(bs, i) == JsonStringOf(JsonReadChars(bs, i + 1, <<>>))

JsonDigit(bs, i) == i <= Len(bs) /\ bs[i] \in 48..57

\* The index after the digits from bs[i] on.
RECURSIVE DigitsEnd(_, _)
DigitsEnd(bs, i) == IF JsonDigit(bs, i) THEN DigitsEnd(bs, i + 1) ELSE i

\* The number of the digits bs[i..j-1], or 100000 when it is larger: an
\* exponent that large is out of the range of f64 like one that overflows
\* the i32 of parse_exponent.
RECURSIVE DigitsCapped(_, _, _, _)
DigitsCapped(bs, i, j, acc) ==
  IF i >= j THEN acc
  ELSE DigitsCapped(bs, i + 1, j,
                    IF acc * 10 + (bs[i] - 48) > 100000 THEN 100000
                    ELSE acc * 10 + (bs[i] - 48))

\* u64::MAX, 18446744073709551615, digit by digit.
U64MaxDigits == <<1, 8, 4, 4, 6, 7, 4, 4, 0, 7, 3, 7, 0, 9, 5, 5, 1, 6, 1, 5>>

\* The digits a are, from the place k on, a greater number than the digits b,
\* which are as many.
RECURSIVE DigitsGreater(_, _, _)
DigitsGreater(a, b, k) ==
  IF k > Len(a) THEN FALSE
  ELSE IF a[k] # b[k] THEN a[k] > b[k]
  ELSE DigitsGreater(a, b, k + 1)

\* The number of the digits a is at least that of the digits b, neither with
\* a leading zero.
DigitsAtLeast(a, b) ==
  \/ Len(a) > Len(b)
  \/ Len(a) = Len(b) /\ ~DigitsGreater(b, a, 1)

\* significand * 10 + digit, the significand by its digits without a leading
\* zero, zero without any.
MulAdd(significand, digit) ==
  IF significand = <<>> /\ digit = 0 THEN <<>> ELSE Append(significand, digit)

\* overflow!(significand * 10 + digit, u64::MAX)
overflow(significand, digit) ==
  \/ Len(MulAdd(significand, digit)) > Len(U64MaxDigits)
  \/ /\ Len(MulAdd(significand, digit)) = Len(U64MaxDigits)
     /\ DigitsGreater(MulAdd(significand, digit), U64MaxDigits, 1)

\* parse_integer, parse_long_integer: the integer digits bs[i..j-1] go into
\* the significand as long as it stays a u64; from the digit that would
\* overflow it on, each only counts into the exponent.
RECURSIVE parse_integer(_, _, _, _)
parse_integer(bs, i, j, significand) ==
  IF i >= j THEN [significand |-> significand, exponent |-> 0]
  ELSE IF overflow(significand, bs[i] - 48)
  THEN [significand |-> significand, exponent |-> j - i]
  ELSE parse_integer(bs, i + 1, j, MulAdd(significand, bs[i] - 48))

\* parse_decimal, parse_decimal_overflow: the decimal digits bs[i..j-1] go
\* into the significand, each lowering the exponent by one, as long as the
\* significand stays a u64; the digit that would overflow it and those after
\* it are dropped.
RECURSIVE parse_decimal(_, _, _, _, _)
parse_decimal(bs, i, j, significand, exponent) ==
  IF i >= j \/ overflow(significand, bs[i] - 48)
  THEN [significand |-> significand, exponent |-> exponent]
  ELSE parse_decimal(bs, i + 1, j, MulAdd(significand, bs[i] - 48), exponent - 1)

\* For the exponents 289 to 308, the least significand whose f64 times the
\* f64 of ten to the exponent is infinite; at a smaller exponent no u64 is
\* large enough.
F64Overflow ==
  <<<<1, 7, 9, 7, 6, 9, 3, 1, 3, 4, 8, 6, 2, 3, 1, 5, 6, 2, 2, 5>>,
    <<1, 7, 9, 7, 6, 9, 3, 1, 3, 4, 8, 6, 2, 3, 1, 5, 6, 4, 9>>,
    <<1, 7, 9, 7, 6, 9, 3, 1, 3, 4, 8, 6, 2, 3, 1, 6, 0, 0>>,
    <<1, 7, 9, 7, 6, 9, 3, 1, 3, 4, 8, 6, 2, 3, 1, 5, 8>>,
    <<1, 7, 9, 7, 6, 9, 3, 1, 3, 4, 8, 6, 2, 3, 1, 6>>,
    <<1, 7, 9, 7, 6, 9, 3, 1, 3, 4, 8, 6, 2, 3, 2>>,
    <<1, 7, 9, 7, 6, 9, 3, 1, 3, 4, 8, 6, 2, 4>>,
    <<1, 7, 9, 7, 6, 9, 3, 1, 3, 4, 8, 6, 3>>,
    <<1, 7, 9, 7, 6, 9, 3, 1, 3, 4, 8, 7>>,
    <<1, 7, 9, 7, 6, 9, 3, 1, 3, 4, 9>>,
    <<1, 7, 9, 7, 6, 9, 3, 1, 3, 5>>,
    <<1, 7, 9, 7, 6, 9, 3, 1, 4>>,
    <<1, 7, 9, 7, 6, 9, 3, 2>>,
    <<1, 7, 9, 7, 6, 9, 4>>,
    <<1, 7, 9, 7, 7, 0>>,
    <<1, 7, 9, 7, 7>>,
    <<1, 7, 9, 8>>,
    <<1, 8, 0>>,
    <<1, 8>>,
    <<2>>>>

\* f64_from_parts is Ok: the significand as an f64 times POW10[exponent] is
\* finite.  A significand of zero is zero at every exponent, a negative
\* exponent divides, and an exponent past the table of 308 powers is out of
\* range.
f64_from_parts(significand, exponent) ==
  \/ significand = <<>>
  \/ exponent < 289
  \/ /\ exponent <= 308
     /\ ~DigitsAtLeast(significand, F64Overflow[exponent - 288])

JsonNumberParts(parts, e, next) ==
  [ok   |-> TRUE,
   v    |-> [type   |-> "number",
             finite |-> f64_from_parts(parts.significand, parts.exponent + e)],
   next |-> next]

JsonNumberDecimal(bs, frac, fracE, parts, e, next) ==
  JsonNumberParts(parse_decimal(bs, frac, fracE, parts.significand, parts.exponent),
                  e, next)

\* The number with the integer digits bs[int..intE-1], the decimal digits
\* bs[frac..fracE-1] and the exponent e.
JsonNumber(bs, int, intE, frac, fracE, e, next) ==
  JsonNumberDecimal(bs, frac, fracE, parse_integer(bs, int, intE, <<>>), e, next)

\* The digits of the exponent are bs[exp..expE-1], after a sign or not.
JsonNumberExpDigits(bs, int, intE, frac, fracE, exp, expE) ==
  IF expE = exp THEN JsonError
  ELSE JsonNumber(bs, int, intE, frac, fracE,
                  IF bs[exp - 1] = 45 THEN 0 - DigitsCapped(bs, exp, expE, 0)
                  ELSE DigitsCapped(bs, exp, expE, 0),
                  expE)

JsonNumberExpFrom(bs, int, intE, frac, fracE, exp) ==
  JsonNumberExpDigits(bs, int, intE, frac, fracE, exp, DigitsEnd(bs, exp))

\* ([eE] [+-]? [0-9]+)?
JsonNumberExp(bs, int, intE, frac, fracE) ==
  IF fracE <= Len(bs) /\ bs[fracE] \in {101, 69}
  THEN JsonNumberExpFrom(bs, int, intE, frac, fracE,
                         IF fracE + 1 <= Len(bs) /\ bs[fracE + 1] \in {43, 45}
                         THEN fracE + 2 ELSE fracE + 1)
  ELSE JsonNumber(bs, int, intE, frac, fracE, 0, fracE)

JsonNumberFracDigits(bs, int, intE, fracE) ==
  IF fracE = intE + 1 THEN JsonError
  ELSE JsonNumberExp(bs, int, intE, intE + 1, fracE)

\* ("." [0-9]+)?
JsonNumberFrac(bs, int, intE) ==
  IF intE <= Len(bs) /\ bs[intE] = 46
  THEN JsonNumberFracDigits(bs, int, intE, DigitsEnd(bs, intE + 1))
  ELSE JsonNumberExp(bs, int, intE, intE, intE)

\* (0 | [1-9][0-9]*)
JsonNumberInt(bs, int) ==
  IF ~JsonDigit(bs, int) THEN JsonError
  ELSE IF bs[int] = 48
  THEN (IF JsonDigit(bs, int + 1) THEN JsonError
        ELSE JsonNumberFrac(bs, int, int + 1))
  ELSE JsonNumberFrac(bs, int, DigitsEnd(bs, int))

\* The number at bs[i]: "-"? (0 | [1-9][0-9]*) ("." [0-9]+)? ([eE] [+-]?
\* [0-9]+)?, and whether it is a finite f64.
JsonReadNumber(bs, i) == JsonNumberInt(bs, IF bs[i] = 45 THEN i + 1 ELSE i)

T_true == <<116, 114, 117, 101>>
T_false == <<102, 97, 108, 115, 101>>
T_null == <<110, 117, 108, 108>>

\* parse_ident: the word is at bs[i].
JsonIdent(bs, i, word) ==
  /\ i + Len(word) - 1 <= Len(bs)
  /\ SubSeq(bs, i, i + Len(word) - 1) = word

JsonLiteral(next) == [ok |-> TRUE, v |-> [type |-> "literal"], next |-> next]

RECURSIVE JsonReadValue(_, _)
RECURSIVE JsonReadElements(_, _, _)
RECURSIVE JsonReadMembers(_, _, _)

\* The array whose first byte after "[" and white space is bs[j].
JsonReadArray(bs, j) ==
  IF j <= Len(bs) /\ bs[j] = 93
  THEN [ok |-> TRUE, v |-> [type |-> "array", items |-> <<>>], next |-> j + 1]
  ELSE JsonReadElements(bs, j, <<>>)

\* The object whose first byte after "{" and white space is bs[j].
JsonReadObject(bs, j) ==
  IF j <= Len(bs) /\ bs[j] = 125
  THEN [ok |-> TRUE, v |-> [type |-> "object", members |-> <<>>], next |-> j + 1]
  ELSE JsonReadMembers(bs, j, <<>>)

\* The value whose first byte is bs[i].
JsonValueAt(bs, i) ==
  IF i > Len(bs) THEN JsonError
  ELSE IF bs[i] = JQuote THEN JsonReadString(bs, i)
  ELSE IF bs[i] = 45 \/ bs[i] \in 48..57 THEN JsonReadNumber(bs, i)
  ELSE IF JsonIdent(bs, i, T_true) THEN JsonLiteral(i + 4)
  ELSE IF JsonIdent(bs, i, T_false) THEN JsonLiteral(i + 5)
  ELSE IF JsonIdent(bs, i, T_null) THEN JsonLiteral(i + 4)
  ELSE IF bs[i] = 91 THEN JsonReadArray(bs, JsonSkipWs(bs, i + 1))
  ELSE IF bs[i] = 123 THEN JsonReadObject(bs, JsonSkipWs(bs, i + 1))
  ELSE JsonError

\* The JSON value from bs[i] on, after white space: a string, a number, a
\* literal, an array or an object, and the index after it.
JsonReadValue(bs, i) == JsonValueAt(bs, JsonSkipWs(bs, i))

\* After a "," of an array, at bs[k]: another element, not the "]".
JsonElementsMore(bs, items, k) ==
  IF k <= Len(bs) /\ bs[k] = 93 THEN JsonError
  ELSE JsonReadElements(bs, k, items)

\* After an element of an array, at bs[j]: "]" or ",".
JsonElementsNext(bs, items, j) ==
  IF j > Len(bs) THEN JsonError
  ELSE IF bs[j] = 93
  THEN [ok |-> TRUE, v |-> [type |-> "array", items |-> items], next |-> j + 1]
  ELSE IF bs[j] = 44 THEN JsonElementsMore(bs, items, JsonSkipWs(bs, j + 1))
  ELSE JsonError

JsonElementsAfter(bs, acc, e) ==
  IF e.ok THEN JsonElementsNext(bs, Append(acc, e.v), JsonSkipWs(bs, e.next))
  ELSE JsonError

\* The elements of an array from bs[i] on: a value, then "]" or a "," that
\* another value follows.
JsonReadElements(bs, i, acc) == JsonElementsAfter(bs, acc, JsonReadValue(bs, i))

\* After a member of an object, at bs[j]: "}" or a "," that a key follows.
JsonMembersNext(bs, ms, j) ==
  IF j > Len(bs) THEN JsonError
  ELSE IF bs[j] = 125
  THEN [ok |-> TRUE, v |-> [type |-> "object", members |-> ms], next |-> j + 1]
  ELSE IF bs[j] = 44 THEN JsonReadMembers(bs, JsonSkipWs(bs, j + 1), ms)
  ELSE JsonError

JsonMembersValue(bs, acc, key, val) ==
  IF val.ok
  THEN JsonMembersNext(bs, Append(acc, <<key, val.v>>), JsonSkipWs(bs, val.next))
  ELSE JsonError

\* After the key of a member, at bs[c]: ":" and the value.
JsonMembersColon(bs, acc, key, c) ==
  IF c > Len(bs) \/ bs[c] # 58 THEN JsonError
  ELSE JsonMembersValue(bs, acc, key, JsonReadValue(bs, c + 1))

JsonMembersKey(bs, acc, key) ==
  IF key.ok THEN JsonMembersColon(bs, acc, key.v, JsonSkipWs(bs, key.next))
  ELSE JsonError

\* The members of an object from bs[i] on: a key that is a string, ":", a
\* value, then "}" or a "," that another key follows.
JsonReadMembers(bs, i, acc) ==
  IF i > Len(bs) \/ bs[i] # JQuote THEN JsonError
  ELSE JsonMembersKey(bs, acc, JsonReadString(bs, i))

\* serde_json::from_slice up to the end of the first value.  What follows
\* the value is not looked at: the deserializer is never asked for the end
\* of the input.
JsonRead(bs) == JsonReadValue(bs, 1)

\* The value can be buffered for an untagged enum: every string in it is a
\* text, every number a finite f64, and the arrays and objects are nested
\* within what is left of the recursion limit.
RECURSIVE Buffered(_, _)
Buffered(v, remaining_depth) ==
  CASE v.type = "string" -> TRUE
    [] v.type = "bytes" -> FALSE
    [] v.type = "number" -> v.finite
    [] v.type = "literal" -> TRUE
    [] v.type = "array" ->
         /\ remaining_depth - 1 > 0
         /\ \A k \in 1..Len(v.items) : Buffered(v.items[k], remaining_depth - 1)
    [] v.type = "object" ->
         /\ remaining_depth - 1 > 0
         /\ \A k \in 1..Len(v.members) :
              /\ v.members[k][1].type = "string"
              /\ Buffered(v.members[k][2], remaining_depth - 1)

\* The derived visit_map of a structure with the String fields named: every
\* key is a text, each field is there once with a text, members of other
\* names are skipped whatever their value.
visit_map(members, fields) ==
  IF /\ \A k \in 1..Len(members) : members[k][1].type = "string"
     /\ \A f \in 1..Len(fields) :
          /\ Cardinality({k \in 1..Len(members) :
                            members[k][1].text = fields[f]}) = 1
          /\ \A k \in 1..Len(members) :
               members[k][1].text = fields[f] => members[k][2].type = "string"
  THEN [ok |-> TRUE,
        v  |-> [n \in {fields[f] : f \in 1..Len(fields)} |->
                  members[CHOOSE k \in 1..Len(members) :
                            members[k][1].text = n][2].text]]
  ELSE JsonError

\* The derived visit_seq: as many texts as there are fields, in the order
\* of the fields.
visit_seq(items, fields) ==
  IF /\ Len(items) = Len(fields)
     /\ \A k \in 1..Len(items) : items[k].type = "string"
  THEN [ok |-> TRUE,
        v  |-> [n \in {fields[f] : f \in 1..Len(fields)} |->
                  items[CHOOSE f \in 1..Len(fields) : fields[f] = n].text]]
  ELSE JsonError

\* The derived Deserialize of a structure, read from the bytes: from an
\* object by the names of the fields, from an array by their order.
DeserializeFields(r, fields) ==
  IF ~r.ok THEN JsonError
  ELSE IF r.v.type = "object" THEN visit_map(r.v.members, fields)
  ELSE IF r.v.type = "array" THEN visit_seq(r.v.items, fields)
  ELSE JsonError

\* A variant of an untagged enum, read from the buffered value: from an
\* object only.
DeserializeVariant(r, fields) ==
  IF r.ok /\ Buffered(r.v, 128) /\ r.v.type = "object"
  THEN visit_map(r.v.members, fields)
  ELSE JsonError

T_name == <<"n", "a", "m", "e">>
T_path == <<"p", "a", "t", "h">>
T_artist == <<"a", "r", "t", "i", "s", "t">>

\* api_id_into_string for SongID
SongID_into_string(id) ==
  base64_encode(JsonObject(<<<<T_path, id.path>>>>))

\* api_id_into_string for CoverArtID: untagged, the fields of the variant.
CoverArtID_into_string(id) ==
  IF id.variant = "Song"
  THEN base64_encode(JsonObject(<<<<T_path, id.path>>>>))
  ELSE base64_encode(JsonObject(<<<<T_name, id.name>>>>))

\* api_id_from_string for SongID
SongID_try_from(s) ==
  LET decoded == base64_decode(s)
  IN  IF ~decoded.ok THEN [ok |-> FALSE, err |-> "Decoding"]
      ELSE LET de == DeserializeFields(JsonRead(decoded.bytes), <<T_path>>)
           IN  IF de.ok THEN [ok |-> TRUE, id |-> [path |-> de.v[T_path]]]
               ELSE [ok |-> FALSE, err |-> "Deserialization"]

T_pl == <<"p", "l", "-">>

\* The token taken as it is.
trim_nothing(s) == s

\* str::trim_start_matches("pl-"): every leading repetition is removed.
RECURSIVE trim_start_matches_pl(_)
trim_start_matches_pl(s) ==
  IF starts_with(s, T_pl) THEN trim_start_matches_pl(SubSeq(s, 4, Len(s))) ELSE s

\* impl TryFrom<&str> for CoverArtID: the variants are tried in order.
CoverArtID_try_from(s0) ==
  LET s       == trim_start_matches_pl(s0)
      decoded == base64_decode(s)
  IN  IF ~decoded.ok THEN [ok |-> FALSE, err |-> "Decoding"]
      ELSE LET content == JsonRead(decoded.bytes)
               song    == DeserializeVariant(content, <<T_path>>)
               pl      == DeserializeVariant(content, <<T_name>>)
           IN  IF song.ok
               THEN [ok |-> TRUE, id |-> [variant |-> "Song", path |-> song.v[T_path]]]
               ELSE IF pl.ok
               THEN [ok |-> TRUE,
                     id |-> [variant |-> "Playlist", name |-> pl.v[T_name]]]
               ELSE [ok |-> FALSE, err |-> "Deserialization"]

\* api_id_into_string for ArtistID
ArtistID_into_string(id) ==
  base64_encode(JsonObject(<<<<T_name, id.name>>>>))

\* api_id_into_string for AlbumID: the fields in the order of the structure.
AlbumID_into_string(id) ==
  base64_encode(JsonObject(<<<<T_name, id.name>>, <<T_artist, id.artist>>>>))

\* api_id_into_string for PlaylistID
PlaylistID_into_string(id) ==
  base64_encode(JsonObject(<<<<T_name, id.name>>>>))

\* api_id_from_string for ArtistID
ArtistID_try_from(s) ==
  LET decoded == base64_decode(s)
  IN  IF ~decoded.ok THEN [ok |-> FALSE, err |-> "Decoding"]
      ELSE LET de == DeserializeFields(JsonRead(decoded.bytes), <<T_name>>)
           IN  IF de.ok THEN [ok |-> TRUE, id |-> [name |-> de.v[T_name]]]
               ELSE [ok |-> FALSE, err |-> "Deserialization"]

\* api_id_from_string for AlbumID
AlbumID_try_from(s) ==
  LET decoded == base64_decode(s)
  IN  IF ~decoded.ok THEN [ok |-> FALSE, err |-> "Decoding"]
      ELSE LET de == DeserializeFields(JsonRead(decoded.bytes),
                                       <<T_name, T_artist>>)
           IN  IF de.ok
               THEN [ok |-> TRUE,
                     id |-> [name |-> de.v[T_name], artist |-> de.v[T_artist]]]
               ELSE [ok |-> FALSE, err |-> "Deserialization"]

\* api_id_from_string for PlaylistID
PlaylistID_try_from(s) ==
  LET decoded == base64_decode(s)
  IN  IF ~decoded.ok THEN [ok |-> FALSE, err |-> "Decoding"]
      ELSE LET de == DeserializeFields(JsonRead(decoded.bytes), <<T_name>>)
           IN  IF de.ok THEN [ok |-> TRUE, id |-> [name |-> de.v[T_name]]]
               ELSE [ok |-> FALSE, err |-> "Deserialization"]

\* The types of identifiers.
IDTypes == {"ArtistID", "AlbumID", "SongID", "PlaylistID", "CoverArtID"}

\* TryInto<String> of an identifier of the type T.
try_into_string(T, id) ==
  CASE T = "ArtistID"   -> ArtistID_into_string(id)
    [] T = "AlbumID"    -> AlbumID_into_string(id)
    [] T = "SongID"     -> SongID_into_string(id)
    [] T = "PlaylistID" -> PlaylistID_into_string(id)
    [] T = "CoverArtID" -> CoverArtID_into_string(id)

\* TryFrom<&str> of the type T.
try_from(T, s) ==
  CASE T = "ArtistID"   -> ArtistID_try_from(s)
    [] T = "AlbumID"    -> AlbumID_try_from(s)
    [] T = "SongID"     -> SongID_try_from(s)
    [] T = "PlaylistID" -> PlaylistID_try_from(s)
    [] T = "CoverArtID" -> CoverArtID_try_from(s)

(***************************************************************************)
(* Typed parameter extraction (axum's Query and Extension extractors) and  *)
(* the routes.                                                             *)
(***************************************************************************)

Digits == <<"0", "1", "2", "3", "4", "5", "6", "7", "8", "9">>
IsDigit(c) == \E i \in 1..10 : Digits[i] = c
DigitVal(c) == (CHOOSE i \in 1..10 : Digits[i] = c) - 1

\* The value of a run of digits, capped just above max (no overflow).
RECURSIVE DigitsValue(_, _, _)
DigitsValue(s, acc, max) ==
  IF s = <<>> THEN acc
  ELSE IF acc > max THEN acc
  ELSE DigitsValue(Tail(s), acc * 10 + DigitVal(Head(s)), max)

\* str::parse::<uN>(): an optional "+", then digits, the value at most max.
parse_unsigned(s, max) ==
  LET ds == IF s # <<>> /\ s[1] = "+" THEN Tail(s) ELSE s
  IN  IF ds # <<>> /\ (\A i \in 1..Len(ds) : IsDigit(ds[i]))
         /\ DigitsValue(ds, 0, max) <= max
      THEN Some(DigitsValue(ds, 0, max))
      ELSE None

\* The number of a run of digits, by its digits without a leading zero,
\* zero without any.
RECURSIVE NumberDigits(_)
NumberDigits(s) ==
  IF s = <<>> THEN <<>>
  ELSE MulAdd(NumberDigits(SubSeq(s, 1, Len(s) - 1)), DigitVal(s[Len(s)]))

U32MaxDigits == <<4, 2, 9, 4, 9, 6, 7, 2, 9, 5>>
I64MaxDigits == <<9, 2, 2, 3, 3, 7, 2, 0, 3, 6, 8, 5, 4, 7, 7, 5, 8, 0, 7>>
I64MinDigits == <<9, 2, 2, 3, 3, 7, 2, 0, 3, 6, 8, 5, 4, 7, 7, 5, 8, 0, 8>>

\* str::parse::<uN>() of a type too wide for the numbers of the model: an
\* optional "+", then digits, the number at most max, all by digits.
parse_wide(s, max) ==
  LET ds == IF s # <<>> /\ s[1] = "+" THEN Tail(s) ELSE s
  IN  IF ds # <<>> /\ (\A i \in 1..Len(ds) : IsDigit(ds[i]))
         /\ DigitsAtLeast(max, NumberDigits(ds))
      THEN Some(NumberDigits(ds))
      ELSE None

\* str::parse::<i64>(): an optional sign, then digits, the number within
\* the range of the type.
parse_i64(s) ==
  LET signed == s # <<>> /\ s[1] \in {"+", "-"}
      ds == IF signed THEN Tail(s) ELSE s
      negative == signed /\ s[1] = "-"
  IN  IF ds # <<>> /\ (\A i \in 1..Len(ds) : IsDigit(ds[i]))
         /\ DigitsAtLeast(IF negative THEN I64MinDigits ELSE I64MaxDigits,
                          NumberDigits(ds))
      THEN Some([negative |-> negative /\ NumberDigits(ds) # <<>>,
                 digits |-> NumberDigits(ds)])
      ELSE None

\* str::parse::<bool>()
parse_bool(s) ==
  IF s = <<"t", "r", "u", "e">> THEN Some(TRUE)
  ELSE IF s = <<"f", "a", "l", "s", "e">> THEN Some(FALSE)
  ELSE None

\* Whether a value deserializes as the field's type.
FieldValueOk(type, v) ==
  CASE type = "String"     -> TRUE
    [] type = "u8"         -> parse_unsigned(v, 255).some
    [] type = "u32"        -> parse_wide(v, U32MaxDigits).some
    [] type = "i64"        -> parse_i64(v).some
    [] type = "bool"       -> parse_bool(v).some
    [] type = "ArtistID"   -> ArtistID_try_from(v).ok
    [] type = "AlbumID"    -> AlbumID_try_from(v).ok
    [] type = "SongID"     -> SongID_try_from(v).ok
    [] type = "PlaylistID" -> PlaylistID_try_from(v).ok
    [] type = "CoverArtID" -> CoverArtID_try_from(v).ok

\* The query structures of the handlers: <<key, type, required>>, the key
\* as serde renames it; a field of an Option type is not required.
QueryStruct(name) ==
  CASE name = "ScrobbleQuery" ->
         {<<"id", "SongID", TRUE>>, <<"time", "i64", FALSE>>,
          <<"submission", "bool", FALSE>>}
    [] name = "SetRatingQuery" ->
         {<<"id", "SongID", TRUE>>, <<"rating", "u8", TRUE>>}
    [] name = "StarQuery" -> {<<"id", "SongID", TRUE>>}
    [] name = "UnstarQuery" -> {<<"id", "SongID", TRUE>>}
    [] name = "GetArtistsQuery" -> {<<"musicFolderId", "String", FALSE>>}
    [] name = "GetArtistQuery" -> {<<"id", "ArtistID", TRUE>>}
    [] name = "GetArtistInfo2Query" -> {<<"id", "ArtistID", TRUE>>}
    [] name = "GetAlbumQuery" -> {<<"id", "AlbumID", TRUE>>}
    [] name = "GetPlaylistsQuery" ->
         {<<"u", "String", TRUE>>, <<"username", "String", FALSE>>}
    [] name = "GetPlaylistQuery" ->
         {<<"u", "String", TRUE>>, <<"id", "PlaylistID", TRUE>>}
    [] name = "CreatePlaylistQuery" ->
         {<<"u", "String", TRUE>>, <<"name", "String", TRUE>>}
    [] name = "UpdatePlaylistQuery" ->
         {<<"playlistId", "PlaylistID", TRUE>>, <<"name", "String", FALSE>>}
    [] name = "DeletePlaylistQuery" -> {<<"id", "PlaylistID", TRUE>>}
    [] name = "GetCoverArtQuery" ->
         {<<"id", "CoverArtID", TRUE>>}
    [] name = "StreamQuery" ->
         {<<"id", "SongID", TRUE>>, <<"maxBitRate", "u32", FALSE>>,
          <<"format", "String", FALSE>>}
    [] name = "GetAvatarQuery" ->
         {<<"u", "String", TRUE>>, <<"username", "String", TRUE>>}
    [] name = "GetUserQuery" ->
         {<<"u", "String", TRUE>>, <<"username", "String", TRUE>>}

\* Query::<T>::from_request_parts: every field at most once, the required
\* ones present, every value of its type.
Query_from_request_parts(q, name) ==
  IF \A f \in QueryStruct(name) :
       LET vs == QueryValues(q, f[1])
       IN  /\ Len(vs) <= 1
           /\ f[3] => Len(vs) = 1
           /\ Len(vs) = 1 => FieldValueOk(f[2], vs[1])
  THEN [ok |-> TRUE]
  ELSE [ok |-> FALSE,
        err |-> From_QueryRejection("Failed to deserialize query string")]

\* get_router installs the Extension layer that carries the shared state.
ExtensionInstalled == TRUE

\* Extension::<Arc<State>>::from_request_parts
Extension_from_request_parts ==
  IF ExtensionInstalled THEN [ok |-> TRUE]
  ELSE [ok |-> FALSE, err |-> From_ExtensionRejection]

\* One extractor of a handler's signature.
from_request_parts(ex, q) ==
  CASE ex = "Extension" -> Extension_from_request_parts
    [] ex = "RawQuery"  -> [ok |-> TRUE]
    [] OTHER            -> Query_from_request_parts(q, ex)

\* The routes of the routers of api/*.rs, each with its wrapper (handler or
\* raw_handler) and the extractors of its signature in declaration order.
Enveloped(extractors) == [raw |-> FALSE, extractors |-> extractors]
Raw(extractors) == [raw |-> TRUE, extractors |-> extractors]

Routes ==
  [scrobble        |-> Enveloped(<<"Extension", "ScrobbleQuery">>),
   setRating       |-> Enveloped(<<"Extension", "SetRatingQuery">>),
   star            |-> Enveloped(<<"Extension", "StarQuery">>),
   unstar          |-> Enveloped(<<"Extension", "UnstarQuery">>),
   getMusicFolders |-> Enveloped(<<>>),
   getArtists      |-> Enveloped(<<"Extension", "GetArtistsQuery">>),
   getArtist       |-> Enveloped(<<"Extension", "GetArtistQuery">>),
   getArtistInfo2  |-> Enveloped(<<"Extension", "GetArtistInfo2Query">>),
   getAlbum        |-> Enveloped(<<"Extension", "GetAlbumQuery">>),
   getPlaylists    |-> Enveloped(<<"Extension", "GetPlaylistsQuery">>),
   getPlaylist     |-> Enveloped(<<"Extension", "GetPlaylistQuery">>),
   createPlaylist  |-> Enveloped(<<"Extension", "CreatePlaylistQuery", "RawQuery">>),
   updatePlaylist  |-> Enveloped(<<"Extension", "UpdatePlaylistQuery", "RawQuery">>),
   deletePlaylist  |-> Enveloped(<<"Extension", "DeletePlaylistQuery">>),
   getCoverArt     |-> Raw(<<"Extension", "GetCoverArtQuery">>),
   stream          |-> Raw(<<"Extension", "StreamQuery">>),
   getAvatar       |-> Raw(<<"GetAvatarQuery">>),
   startScan       |-> Enveloped(<<"Extension">>),
   getScanStatus   |-> Enveloped(<<"Extension">>),
   ping            |-> Enveloped(<<>>),
   getLicense      |-> Enveloped(<<>>),
   getUser         |-> Enveloped(<<"GetUserQuery">>)]

RouteNames == DOMAIN Routes

(***************************************************************************)
(* The handler bodies, each reduced to its outcomes: the result, and the   *)
(* awaits at which the body was suspended on the way, in order: of the     *)
(* pool (state.pool.get()), of the backend (a command or a command list),  *)
(* of ListenBrainz (the request of the client) and of the library          *)
(* (get_song).  An await that answers with an error is the last of its     *)
(* outcome.                                                                *)
(***************************************************************************)

Outcome(awaits, result) == [awaits |-> awaits, result |-> result]

Ok(v) == [ok |-> TRUE, v |-> v]
Err(e) == [ok |-> FALSE, err |-> e]

PoolTimedOut == From_RunError("Timed out in bb8")
CommandFailed == From_CommandError("command error")

T_raw == <<"r", "a", "w">>
T_ogg == <<"o", "g", "g">>
T_mp3 == <<"m", "p", "3">>
T_OGG == <<"O", "G", "G">>

\* The errors of the library: of the file system, and of the HTTP origin.
LibraryErrors ==
  [absent  |-> [variant |-> "IO", kind |-> "NotFound"],
   denied  |-> [variant |-> "IO", kind |-> "PermissionDenied"],
   refused |-> [variant |-> "Http", status |-> None]]

\* The arm of the match on params.format.
format_arm(format) ==
  IF format = Some(T_raw) THEN "raw"
  ELSE IF format = Some(T_ogg) \/ format = None THEN "ogg"
  ELSE "other"

\* The errors of Command::spawn, as io::Error displays them.
SpawnErrors ==
  {"No such file or directory (os error 2)", "Permission denied (os error 13)"}

\* The errors of the ListenBrainz client in a handler: a song without artist
\* or title, and a request that failed, the text of which is reqwest's.
T_submit_listens == "https://api.listenbrainz.org/1/submit-listens"
T_recording_feedback == "https://api.listenbrainz.org/1/feedback/recording-feedback"

reqwest_Error_fmt(url) ==
  "reqwest::Error { kind: Request, url: \"" \o url \o "\", source: ConnectError }"

SongWithoutMetadata == [variant |-> "Song"]
RequestFailure(url) == [variant |-> "Http", inner |-> reqwest_Error_fmt(url)]

\* const ROOT_FOLDER
ROOT_FOLDER == <<"/">>

\* A statement state.pool.get().await?.command(..).await? entered after
\* the awaits before: the errors it may return.
Statement(before) ==
  {Outcome(before \o <<"pool.get">>, Err(PoolTimedOut)),
   Outcome(before \o <<"pool.get", "command">>, Err(CommandFailed))}

\* A statement state.client.command(..).await? of browsing.rs: the command
\* goes out on the client of the state, the pool is not asked.
ClientStatement(before) ==
  {Outcome(before \o <<"command">>, Err(CommandFailed))}

\* n awaits of a command on the connection held.
RECURSIVE Commands(_)
Commands(n) == IF n = 0 THEN <<>> ELSE Append(Commands(n - 1), "command")

\* The commands update_playlist sends on its connection, one statement for
\* the removals when an index parses, one for the additions when an
\* identifier decodes, one for the new name when there is one.
update_statements(q) ==
  (IF \E i \in 1..Len(QueryValues(q, "songIndexToRemove")) :
        parse_wide(QueryValues(q, "songIndexToRemove")[i], U64MaxDigits).some
   THEN 1 ELSE 0)
  + (IF \E i \in 1..Len(QueryValues(q, "songIdToAdd")) :
          SongID_try_from(QueryValues(q, "songIdToAdd")[i]).ok
     THEN 1 ELSE 0)
  + (IF QueryValues(q, "name") # <<>> THEN 1 ELSE 0)

\* The songId values of the raw query that decode.
DecodableSongs(q) ==
  SelectSeq(QueryValues(q, "songId"), LAMBDA v : SongID_try_from(v).ok)

\* The artworks of the model are served in at most MaxChunks answers.
MaxChunks == 4

\* The chunk loop of get_cover_art, entered after the awaits before, at the
\* round `round` of an artwork that the backend serves in `rounds` answers:
\* every round acquires a connection and sends one AlbumArt command; an
\* error of either, or an answer without artwork, ends the handler, and the
\* last round ends it with the cover.
RECURSIVE CoverLoop(_, _, _)
CoverLoop(before, round, rounds) ==
  {Outcome(before \o <<"pool.get">>, Err(PoolTimedOut)),
   Outcome(before \o <<"pool.get", "command">>, Err(CommandFailed)),
   Outcome(before \o <<"pool.get", "command">>, Err(not_found))}
  \cup (IF round < rounds
        THEN CoverLoop(before \o <<"pool.get", "command">>, round + 1, rounds)
        ELSE {Outcome(before \o <<"pool.get", "command">>,
                      Ok([type |-> "bytes", chunks |-> round]))})

\* The loop for every artwork of the model.
CoverOutcomes(before) ==
  UNION {CoverLoop(before, 1, rounds) : rounds \in 1..MaxChunks}

\* The handlers of browsing.rs send on state.client, not on a connection
\* of the pool (State, api.rs:43-47, declares no such field in this
\* snapshot; the handlers are followed as they are written).
BodyOutcomes(route, q) ==
  CASE route = "ping" -> {Outcome(<<>>, Ok([type |-> "unit"]))}
    [] route = "getLicense" -> {Outcome(<<>>, Ok([type |-> "License", valid |-> TRUE]))}
    [] route = "getUser" ->
         IF QueryValues(q, "u")[1] = QueryValues(q, "username")[1]
         THEN {Outcome(<<>>, Ok([type |-> "GetUser",
                                 username |-> QueryValues(q, "username")[1]]))}
         ELSE {Outcome(<<>>, Err(not_authorized(
                 QueryValues(q, "u")[1]
                 \o <<" is not authorized to get details for other users.">>)))}
    [] route = "getAvatar" ->
         IF QueryValues(q, "u")[1] = QueryValues(q, "username")[1]
         THEN {Outcome(<<>>, Err(not_found))}
         ELSE {Outcome(<<>>, Err(not_authorized(
                 QueryValues(q, "u")[1]
                 \o <<" is not authorized to get details for other users.">>)))}
    [] route = "scrobble" ->
         {Outcome(<<>>, Err(generic_error(
            Some("ListenBrainz client is not configured"))))}
         \cup Statement(<<>>)
         \cup {Outcome(<<"pool.get", "command">>, Err(not_found)),
               Outcome(<<"pool.get", "command">>,
                       Err(From_listenbrainz_Error(SongWithoutMetadata))),
               Outcome(<<"pool.get", "command", "listenbrainz">>,
                       Err(From_listenbrainz_Error(RequestFailure(T_submit_listens)))),
               Outcome(<<"pool.get", "command", "listenbrainz">>,
                       Ok([type |-> "unit"]))}
    [] route = "setRating" ->
         {Outcome(<<"pool.get">>, Err(PoolTimedOut)),
          Outcome(<<"pool.get", "command">>, Err(CommandFailed)),
          Outcome(<<"pool.get", "command">>, Ok([type |-> "unit"])),
          Outcome(<<"pool.get", "command", "command">>, Err(CommandFailed)),
          Outcome(<<"pool.get", "command", "command">>, Err(not_found))}
         \cup (IF parse_unsigned(QueryValues(q, "rating")[1], 255).v \in {0, 1, 5}
               THEN {Outcome(<<"pool.get", "command", "command", "listenbrainz">>,
                             Err(From_listenbrainz_Error(
                                   RequestFailure(T_recording_feedback)))),
                     Outcome(<<"pool.get", "command", "command", "listenbrainz">>,
                             Ok([type |-> "unit"]))}
               ELSE {Outcome(<<"pool.get", "command", "command">>,
                             Ok([type |-> "unit"]))})
    [] route = "star" ->
         Statement(<<>>)
         \cup {Outcome(<<"pool.get">>, Err(generic_error(None))),
               Outcome(<<"pool.get", "command">>, Ok([type |-> "unit"]))}
    [] route = "unstar" ->
         Statement(<<>>) \cup {Outcome(<<"pool.get", "command">>, Ok([type |-> "unit"]))}
    [] route = "getMusicFolders" ->
         {Outcome(<<>>, Ok([type |-> "GetMusicFolders"]))}
    [] route = "getArtists" ->
         IF OptField(q, "musicFolderId") \in {None, Some(ROOT_FOLDER)}
         THEN ClientStatement(<<>>)
              \cup {Outcome(<<"command">>, Ok([type |-> "GetArtists"]))}
         ELSE {Outcome(<<>>, Err(generic_error(None)))}
    [] route = "getArtist" ->
         ClientStatement(<<>>) \cup ClientStatement(<<"command">>)
         \cup {Outcome(<<"command", "command">>,
                       Ok([type |-> "GetArtist",
                           name |-> ArtistID_try_from(QueryValues(q, "id")[1]).id.name]))}
    [] route = "getArtistInfo2" ->
         ClientStatement(<<>>)
         \cup {Outcome(<<"command">>, Ok([type |-> "ArtistInfo2"]))}
    [] route = "getAlbum" ->
         ClientStatement(<<>>) \cup ClientStatement(<<"command">>)
         \cup {Outcome(<<"command", "command">>,
                       Ok([type |-> "GetAlbum",
                           name |-> AlbumID_try_from(QueryValues(q, "id")[1]).id.name]))}
    [] route = "getPlaylists" ->
         IF QueryValues(q, "username") # <<>>
            /\ QueryValues(q, "u")[1] # QueryValues(q, "username")[1]
         THEN {Outcome(<<>>, Err(not_authorized(
                 QueryValues(q, "u")[1]
                 \o <<" is not authorized to get details for other users.">>)))}
         ELSE Statement(<<>>) \cup Statement(<<"pool.get", "command">>)
              \cup {Outcome(<<"pool.get", "command", "pool.get", "command">>,
                            Ok([type |-> "GetPlaylists"]))}
    [] route = "getPlaylist" ->
         Statement(<<>>)
         \cup {Outcome(<<"pool.get", "command">>,
                       Ok([type |-> "GetPlaylist",
                           name |-> PlaylistID_try_from(QueryValues(q, "id")[1]).id.name]))}
    [] route = "createPlaylist" ->
         IF DecodableSongs(q) = <<>>
         THEN {Outcome(<<>>, Err(missing_parameter("songId is missing")))}
         ELSE {Outcome(<<"pool.get">>, Err(PoolTimedOut))}
              \cup {Outcome(<<"pool.get">> \o Commands(n), Err(CommandFailed)) :
                      n \in 1..3}
              \cup Statement(<<"pool.get">> \o Commands(3))
              \cup {Outcome(<<"pool.get">> \o Commands(3) \o <<"pool.get", "command">>,
                            Ok([type |-> "GetPlaylist",
                                name |-> QueryValues(q, "name")[1]]))}
    [] route = "updatePlaylist" ->
         {Outcome(<<"pool.get">>, Err(PoolTimedOut)),
          Outcome(<<"pool.get">> \o Commands(update_statements(q)),
                  Ok([type |-> "unit"]))}
         \cup {Outcome(<<"pool.get">> \o Commands(n), Err(CommandFailed)) :
                 n \in 1..update_statements(q)}
    [] route = "deletePlaylist" ->
         Statement(<<>>) \cup {Outcome(<<"pool.get", "command">>, Ok([type |-> "unit"]))}
    [] route = "getCoverArt" ->
         LET id == CoverArtID_try_from(QueryValues(q, "id")[1]).id
         IN  IF id.variant = "Song" THEN CoverOutcomes(<<>>)
             ELSE Statement(<<>>)
                  \cup {Outcome(<<"pool.get", "command">>, Err(not_found))}
                  \cup CoverOutcomes(<<"pool.get", "command">>)
    [] route = "stream" ->
         {Outcome(<<"get_song">>, Err(From_library_Error(LibraryErrors[e]))) :
            e \in DOMAIN LibraryErrors}
         \cup (CASE format_arm(OptField(q, "format")) = "raw" ->
                      {Outcome(<<"get_song">>, Ok([type |-> "stream", of |-> "source"]))}
                  [] format_arm(OptField(q, "format")) = "ogg" ->
                      {Outcome(<<"get_song">>, Err(From_io_Error(e))) : e \in SpawnErrors}
                      \cup {Outcome(<<"get_song">>, Ok([type |-> "stream", of |-> "stdout"]))}
                  [] format_arm(OptField(q, "format")) = "other" ->
                      {Outcome(<<"get_song">>,
                               Err(generic_error(Some("unsupported format"))))})
    [] route \in {"startScan", "getScanStatus"} ->
         Statement(<<>>) \cup {Outcome(<<"pool.get", "command">>, Ok([type |-> "ScanStatus"]))}

(***************************************************************************)
(* The requests of the model: a route under /rest and a query string, the  *)
(* query a sequence of <<key, value>> pairs in the order of the wire.      *)
(***************************************************************************)

T_bob == <<"b", "o", "b">>
T_eve == <<"e", "v", "e">>
T_secret == <<"s", "e", "c", "r", "e", "t">>
T_wrong == <<"w", "r", "o", "n", "g">>
T_enc1 == <<"e", "n", "c", ":", "1">>
T_xyz == <<"x", "y", "z">>
T_cb == <<"c", "b">>
T_xml == <<"x", "m", "l">>
T_bogus == <<"J", "S", "O", "N">>
T_mix == <<"m", "i", "x">>

\* p for the password secret and for the password enc:1, hex-encoded.
T_enc_secret ==
  <<"e", "n", "c", ":", "7", "3", "6", "5", "6", "3", "7", "2", "6",
    "5", "7", "4">>
T_enc_enc1 ==
  <<"e", "n", "c", ":", "6", "5", "6", "e", "6", "3", "3", "a", "3",
    "1">>
T_enc_00 == <<"e", "n", "c", ":", "0", "0">>

\* t for the password secret with the salt xyz, the same in upper case, and
\* t for the password enc:1 with the salt xyz.
T_token_secret ==
  <<"f", "b", "2", "a", "a", "e", "8", "6", "7", "0", "4", "9", "0",
    "6", "3", "3", "a", "c", "7", "e", "9", "6", "a", "4", "3", "f",
    "7", "b", "0", "f", "d", "8">>
T_token_upper ==
  <<"F", "B", "2", "A", "A", "E", "8", "6", "7", "0", "4", "9", "0",
    "6", "3", "3", "A", "C", "7", "E", "9", "6", "A", "4", "3", "F",
    "7", "B", "0", "F", "D", "8">>
T_token_enc1 ==
  <<"6", "e", "7", "9", "a", "4", "5", "5", "0", "c", "6", "c", "c",
    "7", "a", "d", "e", "d", "c", "f", "3", "8", "f", "a", "6", "0",
    "c", "8", "7", "0", "5", "5">>

\* The same tokens with the salt ab.
T_ab == <<"a", "b">>
T_token_secret_ab ==
  <<"1", "5", "2", "d", "2", "a", "e", "6", "9", "3", "f", "6", "4", "6", "9", "c", "5", "7", "2", "9", "1", "e", "4", "3", "2", "1", "2", "0", "e", "5", "8", "6">>
T_token_enc1_ab ==
  <<"f", "8", "e", "1", "9", "c", "3", "1", "f", "0", "4", "8", "6", "a", "6", "a", "4", "8", "c", "3", "1", "3", "c", "2", "6", "0", "0", "e", "0", "3", "1", "a">>

\* The IDs of the song a.mp3 and of the playlist mix, and two that do not
\* decode: not base64, and base64 of text that is no JSON object.
T_song_id ==
  <<"e", "y", "J", "w", "Y", "X", "R", "o", "I", "j", "o", "i", "Y",
    "S", "5", "t", "c", "D", "M", "i", "f", "Q", "=", "=">>
T_playlist_id ==
  <<"e", "y", "J", "u", "Y", "W", "1", "l", "I", "j", "o", "i", "b",
    "W", "l", "4", "I", "n", "0", "=">>
T_pl_playlist_id ==
  <<"p", "l", "-", "e", "y", "J", "u", "Y", "W", "1", "l", "I", "j",
    "o", "i", "b", "W", "l", "4", "I", "n", "0", "=">>
T_not_base64 == <<"!", "!", "!", "!">>
T_not_json == <<"a", "n", "V", "u", "a", "w", "=", "=">>
\* The IDs of the artist alpha and of the album album1 of alpha.
T_artist_id ==
  <<"e", "y", "J", "u", "Y", "W", "1", "l", "I", "j", "o", "i", "Y", "W",
    "x", "w", "a", "G", "E", "i", "f", "Q", "=", "=">>
T_album_id ==
  <<"e", "y", "J", "u", "Y", "W", "1", "l", "I", "j", "o", "i", "Y", "W",
    "x", "i", "d", "W", "0", "x", "I", "i", "w", "i", "Y", "X", "J", "0",
    "a", "X", "N", "0", "I", "j", "o", "i", "Y", "W", "x", "w", "a", "G",
    "E", "i", "f", "Q", "=", "=">>
T_0 == <<"0">>
T_true_text == <<"t", "r", "u", "e">>
T_maybe == <<"m", "a", "y", "b", "e">>
T_12 == <<"1", "2">>
T_minus_5 == <<"-", "5">>
T_i64_max ==
  <<"9", "2", "2", "3", "3", "7", "2", "0", "3", "6", "8", "5", "4", "7",
    "7", "5", "8", "0", "7">>
T_i64_over ==
  <<"9", "2", "2", "3", "3", "7", "2", "0", "3", "6", "8", "5", "4", "7",
    "7", "5", "8", "0", "8">>
T_150 == <<"1", "5", "0">>
T_u32_max == <<"4", "2", "9", "4", "9", "6", "7", "2", "9", "5">>
T_u32_over == <<"4", "2", "9", "4", "9", "6", "7", "2", "9", "6">>
T_other_folder == <<"1">>
T_5 == <<"5">>
T_256 == <<"2", "5", "6">>
T_five == <<"f", "i", "v", "e">>

Param(k, v) == <<<<k, v>>>>

\* The configurations of the model: the credentials given at start.
Configurations ==
  {Authentication_new(T_bob, T_secret), Authentication_new(T_bob, T_enc1)}

UParts == {<<>>, Param("u", T_bob), Param("u", T_eve)}

PParts ==
  {<<>>, Param("p", T_secret), Param("p", T_wrong), Param("p", T_enc_secret),
   Param("p", T_enc_00), Param("p", T_enc1), Param("p", T_enc_enc1),
   Param("p", T_secret) \o Param("p", T_secret)}

TSParts ==
  {<<>>, Param("t", T_token_secret), Param("s", T_xyz),
   Param("t", T_token_secret) \o Param("s", T_xyz),
   Param("t", T_token_upper) \o Param("s", T_xyz),
   Param("t", T_token_enc1) \o Param("s", T_xyz),
   Param("t", T_token_secret_ab) \o Param("s", T_ab),
   Param("t", T_token_enc1_ab) \o Param("s", T_ab),
   Param("t", T_token_secret) \o Param("t", T_token_secret) \o Param("s", T_xyz),
   Param("t", T_token_secret) \o Param("s", T_xyz) \o Param("s", T_xyz)}

FormatParts ==
  {<<>>, Param("f", T_json), Param("f", T_jsonp), Param("f", T_xml),
   Param("f", T_bogus), Param("f", T_json) \o Param("f", T_json),
   Param("callback", T_cb),
   Param("f", T_json) \o Param("callback", T_cb),
   Param("f", T_jsonp) \o Param("callback", T_cb),
   Param("f", T_xml) \o Param("callback", T_cb),
   Param("f", T_json) \o Param("callback", T_cb) \o Param("callback", T_cb)}

\* The parameters of each route's own query structure.
RouteParts(route) ==
  CASE route \in {"ping", "getLicense", "getMusicFolders", "startScan",
                  "getScanStatus"} -> {<<>>}
    [] route \in {"getUser", "getAvatar", "getPlaylists"} ->
         {<<>>, Param("username", T_bob), Param("username", T_eve)}
    [] route = "scrobble" ->
         {<<>>, Param("id", T_song_id),
          Param("id", T_song_id) \o Param("submission", T_true_text)
            \o Param("time", T_12),
          Param("id", T_song_id) \o Param("submission", T_maybe),
          Param("id", T_song_id) \o Param("time", T_minus_5),
          Param("id", T_song_id) \o Param("time", T_i64_max),
          Param("id", T_song_id) \o Param("time", T_i64_over),
          Param("id", T_not_base64)}
    [] route = "setRating" ->
         {<<>>, Param("id", T_song_id),
          Param("id", T_song_id) \o Param("rating", T_5),
          Param("id", T_song_id) \o Param("rating", T_0),
          Param("id", T_song_id) \o Param("rating", T_12),
          Param("id", T_song_id) \o Param("rating", T_256),
          Param("id", T_song_id) \o Param("rating", T_five),
          Param("id", T_not_base64) \o Param("rating", T_5),
          Param("id", T_not_json) \o Param("rating", T_5)}
    [] route \in {"star", "unstar"} ->
         {<<>>, Param("id", T_song_id), Param("id", T_not_json)}
    [] route = "getArtists" ->
         {<<>>, Param("musicFolderId", ROOT_FOLDER),
          Param("musicFolderId", T_other_folder)}
    [] route \in {"getArtist", "getArtistInfo2"} ->
         {<<>>, Param("id", T_artist_id), Param("id", T_not_base64)}
    [] route = "getAlbum" ->
         {<<>>, Param("id", T_album_id), Param("id", T_artist_id)}
    [] route \in {"getPlaylist", "deletePlaylist"} ->
         {<<>>, Param("id", T_playlist_id), Param("id", T_not_json)}
    [] route = "createPlaylist" ->
         {<<>>, Param("name", T_mix),
          Param("name", T_mix) \o Param("songId", T_song_id),
          Param("name", T_mix) \o Param("songId", T_not_base64),
          Param("name", T_mix) \o Param("songId", T_not_base64)
            \o Param("songId", T_song_id),
          Param("songId", T_song_id)}
    [] route = "updatePlaylist" ->
         {<<>>, Param("playlistId", T_playlist_id),
          Param("playlistId", T_playlist_id) \o Param("name", T_mix),
          Param("playlistId", T_playlist_id) \o Param("songIndexToRemove", T_0)
            \o Param("songIdToAdd", T_song_id),
          Param("playlistId", T_playlist_id) \o Param("songIndexToRemove", T_u32_over)
            \o Param("name", T_mix),
          Param("playlistId", T_playlist_id) \o Param("songIndexToRemove", T_five)
            \o Param("songIdToAdd", T_not_base64),
          Param("playlistId", T_not_base64)}
    [] route = "getCoverArt" ->
         {<<>>, Param("id", T_song_id), Param("id", T_playlist_id),
          Param("id", T_pl_playlist_id), Param("id", T_not_base64),
          Param("id", T_not_json)}
    [] route = "stream" ->
         {<<>>, Param("id", T_song_id),
          Param("id", T_song_id) \o Param("format", T_raw),
          Param("id", T_song_id) \o Param("format", T_mp3),
          Param("id", T_song_id) \o Param("format", T_ogg)
            \o Param("maxBitRate", T_150),
          Param("id", T_song_id) \o Param("maxBitRate", T_u32_max),
          Param("id", T_song_id) \o Param("maxBitRate", T_u32_over),
          Param("id", T_not_base64)}

\* The credentials of the requests sent to every route.
GuardSamples ==
  {Param("u", T_bob) \o Param("p", T_secret),
   Param("u", T_bob) \o Param("p", T_enc_enc1),
   Param("u", T_eve) \o Param("p", T_secret),
   Param("u", T_bob),
   Param("p", T_enc_00)}

\* Every combination of credentials and format goes to ping; every route
\* gets every combination of format and of its own parameters.
Queries(route) ==
  {a \o f \o r : a \in GuardSamples, f \in FormatParts, r \in RouteParts(route)}
  \cup (IF route = "ping"
        THEN {u \o p \o ts \o f :
                u \in UParts, p \in PParts, ts \in TSParts, f \in FormatParts}
        ELSE {})

Requests ==
  UNION {{[route |-> route, query |-> q] : q \in Queries(route)} :
           route \in RouteNames}

NoRequest == [route |-> "none", query |-> <<>>]
NoResponse == [kind |-> "none"]

(***************************************************************************)
(* The dispatch of one request: the guard, then the handler wrapper with   *)
(* its extractors in declaration order, then the handler body.  The body   *)
(* is suspended at each of its awaits: the runtime serves other requests   *)
(* there, and what they do to this one reaches it in the answer of the     *)
(* await, of the pool, of the backend, of ListenBrainz or of the library.  *)
(* What the commands do to the backend is followed in SpecHandler and      *)
(* SpecCover.                                                              *)
(***************************************************************************)

VARIABLES
  auth,          \* the configured credentials
  pc,            \* idle, guard, extract, body, await or done
  req,           \* the request being served
  argi,          \* the index of the next extractor of the handler
  resp,          \* the response to the request
  handler_calls, \* how many times the wrapped handler was invoked
  extractions,   \* how many extractors of the handler ran
  bodies,        \* how many times the handler body ran
  pool_gets,     \* how many connections the request asked the pool for
  commands,      \* how many commands the request sent to the backend
  body_result,   \* what the handler body returned: none, Ok or Err
  body_at,       \* the awaits the body has reached; it is suspended at the last
  conns,         \* the pool's connections, idle or checked out: a bag
  pending,       \* how many connections the pool is establishing
  acquiring,     \* how many callers of get are looking through the idle ones
  waiters,       \* the callers of get waiting for a connection, oldest first
  last,          \* what the pool did last, and the reply if a caller timed out
  art,           \* the backend's artwork of the song: its bytes and MIME type
  cover_pc,      \* get_cover_art: idle, path, loop or done
  cover_await,   \* the await it is suspended at: none, pool.get or command
  cover,         \* the bytes get_cover_art has accumulated
  chunk_log,     \* the AlbumArt commands answered so far, with their answers
  cover_resp,    \* the result of get_cover_art
  cover_id,      \* the identifier the request carries
  cover_format,  \* the format the wrapper read off the query of the request
  playlist,      \* the songs of the playlist at the backend, in order
  cover_path,    \* the path whose artwork is asked for
  asked,         \* the paths of the AlbumArt commands sent, in order
  stream_pc,     \* stream: idle, open, respond, streaming or done
  stream_format, \* the format the wrapper read off the query of the request
  params,        \* the StreamQuery of the request
  library,       \* what the library will answer to get_song
  lib_opens,     \* how many source streams the request opened from the library
  spawns,        \* how many subprocesses the request spawned
  ffmpeg,        \* the bitrate argument of the encoder spawned
  stream_resp,   \* the result of stream
  src_left,      \* the chunks the source stream has yet to yield
  stdin_w,       \* the write end of the child's stdin: none, open or closed
  copy_buf,      \* the chunks the copy has read and not yet written
  stdin_buf,     \* the chunks in the pipe to the child's stdin
  enc,           \* the chunks the child has read and not yet written
  stdout_buf,    \* the chunks in the pipe from the child's stdout
  child,         \* the encoder process: none, running, exited or reaped
  feeder,        \* the spawned task: none, copy, drain, wait or done
  body,          \* the response body: none, open, ended or dropped
  warned,        \* the failures the task has logged: of the copy, of the wait
  codec_pc,      \* idle, encoded or decoded
  ident,         \* the identifier converted to a token, and where it is from
  tokens,        \* the tokens its conversions gave, in order
  wire,          \* the token given to the decoder and the type asked for
  decoded,       \* the result of the decoder
  fail_pc,       \* idle, raised, converted or replied
  failure,       \* the failure raised below the handler
  fail_query,    \* the query of the request that failed
  fail_error,    \* the API error it was converted into
  fail_resp,     \* the response to the request
  call,          \* the handler invoked with its extracted parameters
  todo,          \* what the handler has yet to do, in order
  held,          \* how many pooled connections the handler holds
  gets,          \* how many connections the handler has acquired
  exhausted,     \* whether other requests hold every other connection
  store,         \* the stored playlists of the backend, by name
  queue,         \* the queue of the backend
  before,        \* the stored playlists when the handler was invoked
  sent,          \* the commands the handler sent, in order
  answer,        \* the answer to the last command list
  returned,      \* what the handler returned
  disturbed      \* whether another client wrote to the playlist meanwhile

dvars ==
  <<auth, pc, req, argi, resp, handler_calls, extractions, bodies,
    pool_gets, commands, body_result, body_at>>

pvars == <<conns, pending, acquiring, waiters, last>>

cvars ==
  <<art, cover_pc, cover_await, cover, chunk_log, cover_resp, cover_id,
    cover_format, playlist, cover_path, asked>>

svars ==
  <<stream_pc, stream_format, params, library, lib_opens, spawns, ffmpeg,
    stream_resp, src_left, copy_buf, stdin_w, stdin_buf, enc, stdout_buf,
    child, feeder, body, warned>>

kvars == <<codec_pc, ident, tokens, wire, decoded>>

evars == <<fail_pc, failure, fail_query, fail_error, fail_resp>>

lvars ==
  <<call, todo, held, gets, exhausted, store, queue, before, sent, answer,
    returned, disturbed>>

xvars == <<kvars, evars, lvars>>

mvars == <<cvars, svars, xvars>>

vars == <<dvars, pvars, mvars>>

NoEvent == [event |-> "none"]

\* Pool::builder().build(manager): no minimum of idle connections is set,
\* so the pool starts without connections.
PoolInit ==
  /\ conns = EmptyBag
  /\ pending = 0
  /\ acquiring = 0
  /\ waiters = <<>>
  /\ last = NoEvent

DispatchInit ==
  /\ pc = "idle"
  /\ req = NoRequest
  /\ argi = 1
  /\ resp = NoResponse
  /\ handler_calls = 0
  /\ extractions = 0
  /\ bodies = 0
  /\ pool_gets = 0
  /\ commands = 0
  /\ body_result = "none"
  /\ body_at = <<>>

NoArt == [some |-> FALSE]
NoCover == [variant |-> "none"]

\* SerializationQuery::default()
NoFormat == [f |-> None, callback |-> None]

\* No cover art request is being served.
CoverInit ==
  /\ art = NoArt
  /\ cover_pc = "idle"
  /\ cover_await = "none"
  /\ cover = <<>>
  /\ chunk_log = <<>>
  /\ cover_resp = NoResponse
  /\ cover_id = NoCover
  /\ cover_format = NoFormat
  /\ playlist = <<>>
  /\ cover_path = None
  /\ asked = <<>>

NoParams == [format |-> None, max_bitrate |-> None]

\* No stream is open: no source, no child, no task, no body.
SessionInit ==
  /\ src_left = 0
  /\ copy_buf = 0
  /\ stdin_w = "none"
  /\ stdin_buf = 0
  /\ enc = 0
  /\ stdout_buf = 0
  /\ child = "none"
  /\ feeder = "none"
  /\ body = "none"
  /\ warned = {}

\* No stream request is being served.
StreamInit ==
  /\ stream_pc = "idle"
  /\ stream_format = NoFormat
  /\ params = NoParams
  /\ library = "none"
  /\ lib_opens = 0
  /\ spawns = 0
  /\ ffmpeg = None
  /\ stream_resp = NoResponse
  /\ SessionInit

NoIdent == [type |-> "none"]
NoWire == [type |-> "none", token |-> <<>>]
NoResult == [ok |-> FALSE, err |-> "none"]

\* No identifier is being converted.
CodecInit ==
  /\ codec_pc = "idle"
  /\ ident = NoIdent
  /\ tokens = <<>>
  /\ wire = NoWire
  /\ decoded = NoResult

NoFailure == [source |-> "none"]

\* No failure is being answered.
FailureInit ==
  /\ fail_pc = "idle"
  /\ failure = NoFailure
  /\ fail_query = <<>>
  /\ fail_error = NoFailure
  /\ fail_resp = NoResponse

NoCall == [route |-> "none"]

T_new == <<"n", "e", "w">>

\* The names of the stored playlists of the model.
PlaylistNames == <<T_mix, T_new>>

NoPlaylists == [n \in {PlaylistNames[i] : i \in 1..Len(PlaylistNames)} |-> None]

\* No handler is running; the backend has no stored playlist and an empty
\* queue.
HandlerInit ==
  /\ call = NoCall
  /\ todo = <<>>
  /\ held = 0
  /\ gets = 0
  /\ exhausted = FALSE
  /\ store = NoPlaylists
  /\ queue = <<>>
  /\ before = NoPlaylists
  /\ sent = <<>>
  /\ answer = None
  /\ returned = None
  /\ disturbed = FALSE

MediaInit == CoverInit /\ StreamInit /\ CodecInit /\ FailureInit /\ HandlerInit

Init ==
  /\ auth \in Configurations
  /\ DispatchInit
  /\ PoolInit
  /\ MediaInit

\* A request arrives at a route under /rest.
Receive ==
  /\ pc = "idle"
  /\ \E r \in Requests : req' = r
  /\ pc' = "guard"
  /\ UNCHANGED <<auth, argi, resp, handler_calls, extractions, bodies,
                 pool_gets, commands, body_result, body_at>>
  /\ UNCHANGED <<pvars, mvars>>

\* The route layer without the early return: the error is rendered and the
\* wrapped handler runs all the same.
Authenticate_then_run ==
  /\ pc = "guard"
  /\ LET err == authenticate(req.query, auth)
     IN  /\ resp' = IF err.some
                    THEN serialize_reply(err.v, serialization_format(req.query))
                    ELSE resp
         /\ handler_calls' = handler_calls + 1
         /\ pc' = IF Routes[req.route].extractors = <<>>
                  THEN "body" ELSE "extract"
  /\ UNCHANGED <<auth, req, argi, extractions, bodies, pool_gets, commands,
                 body_result, body_at>>
  /\ UNCHANGED <<pvars, mvars>>

\* The route layer: authenticate answers the request itself, or runs the
\* wrapped handler (next.run).
Authenticate ==
  /\ pc = "guard"
  /\ LET err == authenticate(req.query, auth)
     IN  IF err.some
         THEN /\ resp' = serialize_reply(err.v, serialization_format(req.query))
              /\ pc' = "done"
              /\ UNCHANGED handler_calls
         ELSE /\ handler_calls' = handler_calls + 1
              /\ pc' = IF Routes[req.route].extractors = <<>>
                       THEN "body" ELSE "extract"
              /\ UNCHANGED resp
  /\ UNCHANGED <<auth, req, argi, extractions, bodies, pool_gets, commands,
                 body_result, body_at>>
  /\ UNCHANGED <<pvars, mvars>>

\* The wrapper without the early return: a rejection is rendered and the
\* next extractor, and then the body, run all the same.
Extract_then_continue ==
  /\ pc = "extract"
  /\ LET exs == Routes[req.route].extractors
         r   == from_request_parts(exs[argi], req.query)
     IN  /\ argi' = argi + 1
         /\ pc' = IF argi = Len(exs) THEN "body" ELSE "extract"
         /\ resp' = IF r.ok THEN resp
                    ELSE serialize_reply(r.err, serialization_format(req.query))
  /\ extractions' = extractions + 1
  /\ UNCHANGED <<auth, req, handler_calls, bodies, pool_gets, commands,
                 body_result, body_at>>
  /\ UNCHANGED <<pvars, mvars>>

\* Handler::call and RawHandler::call: the next extractor of the signature;
\* a rejection is the reply.
Extract ==
  /\ pc = "extract"
  /\ LET exs == Routes[req.route].extractors
         r   == from_request_parts(exs[argi], req.query)
     IN  IF r.ok
         THEN /\ argi' = argi + 1
              /\ pc' = IF argi = Len(exs) THEN "body" ELSE "extract"
              /\ UNCHANGED resp
         ELSE /\ resp' = serialize_reply(r.err, serialization_format(req.query))
              /\ pc' = "done"
              /\ UNCHANGED argi
  /\ extractions' = extractions + 1
  /\ UNCHANGED <<auth, req, handler_calls, bodies, pool_gets, commands,
                 body_result, body_at>>
  /\ UNCHANGED <<pvars, mvars>>

\* The awaits of the outcome begin with the awaits reached.
Reached(o, at) ==
  /\ Len(o.awaits) >= Len(at)
  /\ SubSeq(o.awaits, 1, Len(at)) = at

\* The wrapper of a raw route returning whatever the body returned: its
\* error goes out without an envelope.
Body_raw_unwrapped ==
  /\ pc \in {"body", "await"}
  /\ \E o \in BodyOutcomes(req.route, req.query) :
       /\ o.awaits = body_at
       /\ resp' =
            IF Routes[req.route].raw
            THEN [kind |-> "raw",
                  body |-> IF o.result.ok THEN o.result.v ELSE o.result.err]
            ELSE IF ~o.result.ok
            THEN serialize_reply(o.result.err, serialization_format(req.query))
            ELSE serialize_reply(into_reply(o.result.v),
                                 serialization_format(req.query))
       /\ body_result' = IF o.result.ok THEN "Ok" ELSE "Err"
  /\ bodies' = IF pc = "body" THEN bodies + 1 ELSE bodies
  /\ pc' = "done"
  /\ UNCHANGED <<auth, req, argi, handler_calls, extractions, pool_gets,
                 commands, body_at>>
  /\ UNCHANGED <<pvars, mvars>>

\* The handler body is called, or the await it is suspended at answers
\* with a value, and the body runs to its next await: it asks the pool,
\* sends a command, calls ListenBrainz or opens the song, and is suspended
\* there.
BodySuspends ==
  /\ pc \in {"body", "await"}
  /\ \E o \in BodyOutcomes(req.route, req.query) :
       /\ Reached(o, body_at)
       /\ Len(o.awaits) > Len(body_at)
       /\ LET next == o.awaits[Len(body_at) + 1]
          IN  /\ body_at' = Append(body_at, next)
              /\ pool_gets' = pool_gets + (IF next = "pool.get" THEN 1 ELSE 0)
              /\ commands' = commands + (IF next = "command" THEN 1 ELSE 0)
  /\ bodies' = IF pc = "body" THEN bodies + 1 ELSE bodies
  /\ pc' = "await"
  /\ UNCHANGED <<auth, req, argi, resp, handler_calls, extractions, body_result>>
  /\ UNCHANGED <<pvars, mvars>>

\* The handler body is called, or the await it is suspended at answers,
\* with a value or with an error, and the body runs to its result; the
\* wrapper renders it.
Body ==
  /\ pc \in {"body", "await"}
  /\ \E o \in BodyOutcomes(req.route, req.query) :
       /\ o.awaits = body_at
       /\ resp' =
            IF ~o.result.ok
            THEN serialize_reply(o.result.err, serialization_format(req.query))
            ELSE IF Routes[req.route].raw
            THEN [kind |-> "raw", body |-> o.result.v]
            ELSE serialize_reply(into_reply(o.result.v),
                                 serialization_format(req.query))
       /\ body_result' = IF o.result.ok THEN "Ok" ELSE "Err"
  /\ bodies' = IF pc = "body" THEN bodies + 1 ELSE bodies
  /\ pc' = "done"
  /\ UNCHANGED <<auth, req, argi, handler_calls, extractions, pool_gets,
                 commands, body_at>>
  /\ UNCHANGED <<pvars, mvars>>

\* The response is sent; the server waits for the next request.
Finish ==
  /\ pc = "done"
  /\ pc' = "idle"
  /\ req' = NoRequest
  /\ argi' = 1
  /\ resp' = NoResponse
  /\ handler_calls' = 0
  /\ extractions' = 0
  /\ bodies' = 0
  /\ pool_gets' = 0
  /\ commands' = 0
  /\ body_result' = "none"
  /\ body_at' = <<>>
  /\ UNCHANGED auth
  /\ UNCHANGED <<pvars, mvars>>

Next == Receive \/ Authenticate \/ Extract \/ BodySuspends \/ Body \/ Finish

Spec == Init /\ [][Next]_vars

(***************************************************************************)
(* The pool of backend connections (main.rs, mpd.rs).  The manager's       *)
(* is_valid and has_broken, the customizer's on_acquire and the builder's  *)
(* settings are the program's; the machinery that calls them is the pool   *)
(* crate's: get looks through the idle connections, probing each, and      *)
(* waits when none is left; a released connection goes to the oldest       *)
(* waiter, or back among the idle ones.                                    *)
(***************************************************************************)

\* Pool::builder().max_size(8)
max_size == 8

\* Pool::builder().connection_timeout(Duration::from_secs(1)), in seconds
connection_timeout == 1

\* How many callers of get may be looking or waiting at a time, how many
\* connections may have a closed transport at a time, and the count up to
\* which the hand-outs of a connection are told apart.
MaxBlocked == 2
MaxClosed == 1
MaxHandouts == 2

Responses == {"OK", "ACK"}

\* Client::command: the command succeeds on an open transport when the
\* backend answers OK.
command_ok(conn, response) == conn.transport = "open" /\ response = "OK"

\* ConnectionManager::connect succeeded: a new session, with the binary limit
\* the backend starts a session with (8192 bytes).
NewConnection ==
  [idle |-> FALSE, transport |-> "open", binary_limit |-> 8192,
   customized |-> 0, holders |-> 0, handouts |-> 0, open_at_handout |-> TRUE]

\* ConnectionManager::is_valid with the probe always passing.
is_valid_always(conn, response) == TRUE

\* ConnectionManager::is_valid: the Ping command.
is_valid(conn, response) == command_ok(conn, response)

\* ConnectionManager::has_broken: Client::is_connection_closed.
has_broken(conn) == conn.transport = "closed"

\* ConnectionCustomizer::on_acquire doing nothing.
on_acquire_nothing(conn, response) == [ok |-> TRUE, conn |-> conn]

\* ConnectionCustomizer::on_acquire: the SetBinaryLimit command.
on_acquire(conn, response) ==
  IF command_ok(conn, response)
  THEN [ok |-> TRUE,
        conn |-> [conn EXCEPT !.binary_limit = 128 * 1024,
                              !.customized = @ + 1]]
  ELSE [ok |-> FALSE, conn |-> conn]

Min(a, b) == IF a <= b THEN a ELSE b

One(conn) == SetToBag({conn})

IdleConns == {c \in BagToSet(conns) : c.idle}
HeldConns == {c \in BagToSet(conns) : c.holders > 0}
ClosedCount(bag) ==
  BagCardinality(bag) - BagCardinality([c \in {x \in BagToSet(bag) : x.transport = "open"} |-> bag[c]])

\* A connection handed to a caller that goes on to be among the idle ones.
Handout_still_idle(conn) ==
  [conn EXCEPT !.holders = @ + 1,
               !.handouts = Min(@ + 1, MaxHandouts),
               !.open_at_handout = (conn.transport = "open")]

\* A connection handed to a caller: it leaves the idle ones.
Handout(conn) ==
  [conn EXCEPT !.idle = FALSE,
               !.holders = @ + 1,
               !.handouts = Min(@ + 1, MaxHandouts),
               !.open_at_handout = (conn.transport = "open")]

\* The pool approves a new connection when one is wanted and the live and
\* the pending ones together are below max_size.
Approved(bag, pend, wanted) ==
  IF wanted /\ BagCardinality(bag) + pend < max_size THEN pend + 1 ELSE pend

\* More callers wait than connections are idle or on their way.
Wanted(bag, pend, ws) ==
  Len(ws) > BagCardinality([c \in {x \in BagToSet(bag) : x.idle} |-> bag[c]]) + pend

\* A connection is put into the pool: the oldest waiter gets it, or it is
\* idle.
Put(bag, conn) ==
  IF waiters # <<>>
  THEN /\ conns' = bag (+) One(Handout(conn))
       /\ waiters' = Tail(waiters)
  ELSE /\ conns' = bag (+) One([conn EXCEPT !.idle = TRUE])
       /\ UNCHANGED waiters

\* A handler calls pool.get().
CallGet ==
  /\ acquiring + Len(waiters) < MaxBlocked
  /\ acquiring' = acquiring + 1
  /\ last' = NoEvent
  /\ UNCHANGED <<conns, pending, waiters>>
  /\ UNCHANGED <<dvars, mvars>>

\* get takes an idle connection and probes it: the caller gets it, or it is
\* discarded and get goes on looking.
CheckOut ==
  /\ acquiring > 0
  /\ \E c \in IdleConns, response \in Responses :
       IF is_valid(c, response)
       THEN /\ conns' = (conns (-) One(c)) (+) One(Handout(c))
            /\ acquiring' = acquiring - 1
            /\ last' = NoEvent
            /\ UNCHANGED pending
       ELSE /\ conns' = conns (-) One(c)
            /\ pending' = Approved(conns (-) One(c), pending,
                                   Wanted(conns (-) One(c), pending, waiters))
            /\ last' = [event |-> "discarded", by |-> "is_valid"]
            /\ UNCHANGED acquiring
  /\ UNCHANGED waiters
  /\ UNCHANGED <<dvars, mvars>>

\* get finds no idle connection: the caller waits, and the pool approves a
\* new connection if it may.
Enqueue ==
  /\ acquiring > 0
  /\ IdleConns = {}
  /\ acquiring' = acquiring - 1
  /\ waiters' = Append(waiters, 0)
  /\ pending' = Approved(conns, pending, TRUE)
  /\ last' = NoEvent
  /\ UNCHANGED conns
  /\ UNCHANGED <<dvars, mvars>>

\* The pool establishes an approved connection: connect, then on_acquire,
\* once; the connection is put into the pool if both succeed.
AddConnection ==
  /\ pending > 0
  /\ pending' = pending - 1
  /\ \E connected \in BOOLEAN, response \in Responses :
       LET r == on_acquire(NewConnection, response)
       IN  IF connected /\ r.ok
           THEN Put(conns, r.conn)
           ELSE UNCHANGED <<conns, waiters>>
  /\ last' = NoEvent
  /\ UNCHANGED acquiring
  /\ UNCHANGED <<dvars, mvars>>

\* A caller drops its connection: a broken one is discarded, another goes
\* to the oldest waiter or back among the idle ones.
Release ==
  /\ \E c \in HeldConns :
       LET rest == conns (-) One(c)
           back == [c EXCEPT !.holders = @ - 1]
       IN  IF has_broken(c)
           THEN /\ conns' = rest
                /\ pending' = Approved(rest, pending, Wanted(rest, pending, waiters))
                /\ last' = [event |-> "discarded", by |-> "has_broken"]
                /\ UNCHANGED waiters
           ELSE /\ Put(rest, back)
                /\ last' = NoEvent
                /\ UNCHANGED pending
  /\ UNCHANGED acquiring
  /\ UNCHANGED <<dvars, mvars>>

\* The transport of a connection closes, idle or checked out.
TransportCloses ==
  /\ ClosedCount(conns) < MaxClosed
  /\ \E c \in BagToSet(conns) :
       /\ c.transport = "open"
       /\ conns' = (conns (-) One(c)) (+) One([c EXCEPT !.transport = "closed"])
  /\ last' = NoEvent
  /\ UNCHANGED <<pending, acquiring, waiters>>
  /\ UNCHANGED <<dvars, mvars>>

\* A second passes while callers wait; none waits past the timeout.
Tick ==
  /\ waiters # <<>>
  /\ \A i \in 1..Len(waiters) : waiters[i] < connection_timeout
  /\ waiters' = [i \in 1..Len(waiters) |-> waiters[i] + 1]
  /\ last' = NoEvent
  /\ UNCHANGED <<conns, pending, acquiring>>
  /\ UNCHANGED <<dvars, mvars>>

\* The formats of the requests whose handlers call get.
PoolFormats == {<<>>, Param("f", T_json), Param("f", T_jsonp) \o Param("callback", T_cb)}

\* The oldest waiter has waited connection_timeout: get returns
\* RunError::TimedOut, and the handler's wrapper renders the error.
Timeout ==
  /\ waiters # <<>>
  /\ Head(waiters) = connection_timeout
  /\ waiters' = Tail(waiters)
  /\ \E q \in PoolFormats :
       last' = [event |-> "timeout",
                reply |-> serialize_reply(From_RunError("Timed out in bb8"),
                                          serialization_format(q))]
  /\ UNCHANGED <<conns, pending, acquiring>>
  /\ UNCHANGED <<dvars, mvars>>

NextPool ==
  \/ CallGet
  \/ CheckOut
  \/ Enqueue
  \/ AddConnection
  \/ Release
  \/ TransportCloses
  \/ Tick
  \/ Timeout

InitPool ==
  /\ auth = Authentication_new(T_bob, T_secret)
  /\ DispatchInit
  /\ PoolInit
  /\ MediaInit

SpecPool == InitPool /\ [][NextPool]_vars

(***************************************************************************)
(* Cover art retrieval (api/retrieval.rs, get_cover_art): the path of the  *)
(* song, then one AlbumArt command per round of the loop, each on a        *)
(* connection of its own, until the accumulated bytes reach the size the   *)
(* answer reports.  The backend answers with the total size of the artwork *)
(* it has at that moment and a chunk of it from the offset asked for, of a *)
(* length of its choosing; the artwork may be replaced between two rounds. *)
(***************************************************************************)

\* The longest artwork.
MaxArtLen == 3

\* The versions of the artwork; the byte at place i of version v is 10 v + i,
\* so that every byte of every version differs from every other.
ArtVersions == {1, 2}

T_image_png == <<"i", "m", "a", "g", "e", "/", "p", "n", "g">>
T_octet_stream ==
  <<"a", "p", "p", "l", "i", "c", "a", "t", "i", "o", "n", "/",
    "o", "c", "t", "e", "t", "-", "s", "t", "r", "e", "a", "m">>

\* The MIME types the backend reports: none, one that is a header value and
\* one that is not (it holds a line feed).
Mimes == {None, Some(T_image_png), Some(<<"LF">>)}

Artworks ==
  {[some |-> TRUE, bytes |-> [i \in 1..n |-> 10 * v + i], mime |-> m] :
     v \in ArtVersions, n \in 1..MaxArtLen, m \in Mimes}

\* HeaderValue::from_str: every byte is the tab or is not a control
\* character, so the text past ASCII is a value.
HeaderValue_from_str(m) ==
  IF \A i \in 1..Len(m) :
       \/ m[i] = "TAB"
       \/ m[i] # "DEL" /\ \A j \in 1..Len(ControlNames) : m[i] # ControlNames[j]
  THEN Some(m) ELSE None

\* The backend's answer to AlbumArt::new(path).offset(offset): an error for
\* an offset past the end, nothing for a song without artwork, else the
\* total size and a chunk from the offset, empty only at the very end.
AlbumArtAnswers(a, offset) ==
  IF ~a.some THEN {Ok(None)}
  ELSE IF offset > Len(a.bytes) THEN {Err(CommandFailed)}
  ELSE IF offset = Len(a.bytes)
  THEN {Ok(Some([size |-> Len(a.bytes), mime |-> a.mime, data |-> <<>>]))}
  ELSE {Ok(Some([size |-> Len(a.bytes), mime |-> a.mime,
                 data |-> SubSeq(a.bytes, offset + 1, offset + n)])) :
          n \in 1..(Len(a.bytes) - offset)}

\* The offset of every round is zero.
chunk_offset_zero(buf) == 0

\* .offset(cover.len())
chunk_offset(buf) == Len(buf)

\* The chunk is not appended.
put_slice_dropped(buf, data) == buf

\* cover.put_slice(&resp.data)
put_slice(buf, data) == buf \o data

\* The loop ends after the first answer.
cover_complete_at_once(buf, r) == TRUE

\* if cover.len() < resp.size { continue; }
cover_complete(buf, r) == ~(Len(buf) < r.size)

\* cover.into_response(), with the MIME type of the last answer when it is
\* a header value.
cover_into_response(buf, r) ==
  LET m == IF r.mime.some THEN HeaderValue_from_str(r.mime.v) ELSE None
  IN  [kind         |-> "raw",
       body         |-> buf,
       content_type |-> IF m.some THEN m.v ELSE T_octet_stream]

\* The queries a raw handler's wrapper reads the format of the reply from
\* (glue.rs:132): none, JSON, and JSONP with its callback.
WrapperFormatParts ==
  {<<>>, Param("f", T_json), Param("f", T_jsonp) \o Param("callback", T_cb)}

MaxTracks == 2

T_a_mp3 == <<"a", ".", "m", "p", "3">>
T_b_mp3 == <<"b", ".", "m", "p", "3">>

\* The identifiers of the requests: of a song, of a playlist.
CoverIDs ==
  {[variant |-> "Song", path |-> T_a_mp3], [variant |-> "Playlist", name |-> T_mix]}

\* The songs a stored playlist may hold: up to MaxTracks paths in order,
\* none twice.
RECURSIVE TracksOf(_)
TracksOf(n) ==
  IF n = 0 THEN {<<>>}
  ELSE TracksOf(n - 1)
       \cup UNION {{Append(s, x) : x \in {T_a_mp3, T_b_mp3} \ {s[i] : i \in 1..Len(s)}} :
                     s \in {y \in TracksOf(n - 1) : Len(y) = n - 1}}

StoredPlaylists == TracksOf(MaxTracks)

\* The last song of the playlist instead of the first.
last_song(songs) ==
  IF songs = <<>> THEN Err(not_found) ELSE Ok(songs[Len(songs)])

\* songs.first().map(|s| s.file_path()...).ok_or_else(Error::not_found)
first_song(songs) ==
  IF songs = <<>> THEN Err(not_found) ELSE Ok(songs[1])

\* get_cover_art is called with a decoded identifier: of a song, whose path
\* it holds, or of a playlist, whose first song is looked up first.  It
\* runs to its first await, state.pool.get() of the lookup or of the first
\* round.
CoverStart ==
  /\ cover_pc = "idle"
  /\ art' \in Artworks \cup {NoArt}
  /\ \E id \in CoverIDs :
       /\ cover_id' = id
       /\ IF id.variant = "Song"
          THEN /\ cover_path' = Some(id.path)
               /\ playlist' = <<>>
               /\ cover_pc' = "loop"
          ELSE /\ cover_path' = None
               /\ playlist' \in StoredPlaylists
               /\ cover_pc' = "path"
  /\ cover_await' = "pool.get"
  /\ \E q \in WrapperFormatParts : cover_format' = serialization_format(q)
  /\ cover' = <<>>
  /\ chunk_log' = <<>>
  /\ asked' = <<>>
  /\ cover_resp' = NoResponse
  /\ UNCHANGED <<dvars, pvars, svars, xvars>>

\* CoverArtID::Playlist: state.pool.get().await? answers, with a connection,
\* on which GetPlaylist is sent, or with the error the handler returns.
CoverPathGet ==
  /\ cover_pc = "path"
  /\ cover_await = "pool.get"
  /\ \/ /\ cover_await' = "command"
        /\ UNCHANGED <<cover_pc, cover_resp>>
     \/ /\ cover_pc' = "done"
        /\ cover_await' = "none"
        /\ cover_resp' = serialize_reply(PoolTimedOut, cover_format)
  /\ UNCHANGED <<art, cover, chunk_log, cover_id, cover_format, playlist,
                 cover_path, asked>>
  /\ UNCHANGED <<dvars, pvars, svars, xvars>>

\* CoverArtID::Playlist: command(GetPlaylist(&name)).await? answers, the
\* connection is dropped, and the path is that of the first song.
CoverPathCommand ==
  /\ cover_pc = "path"
  /\ cover_await = "command"
  /\ \E r \in {Err(CommandFailed), first_song(playlist)} :
       IF r.ok
       THEN /\ cover_pc' = "loop"
            /\ cover_await' = "pool.get"
            /\ cover_path' = Some(r.v)
            /\ UNCHANGED cover_resp
       ELSE /\ cover_pc' = "done"
            /\ cover_await' = "none"
            /\ cover_resp' = serialize_reply(r.err, cover_format)
            /\ UNCHANGED cover_path
  /\ UNCHANGED <<art, cover, chunk_log, cover_id, cover_format, playlist, asked>>
  /\ UNCHANGED <<dvars, pvars, svars, xvars>>

\* A round of the loop: state.pool.get().await? answers, with a connection,
\* on which the AlbumArt command at the offset is sent, or with the error
\* the handler returns.
CoverChunkGet ==
  /\ cover_pc = "loop"
  /\ cover_await = "pool.get"
  /\ \/ /\ cover_await' = "command"
        /\ asked' = Append(asked, cover_path.v)
        /\ UNCHANGED <<cover_pc, cover_resp>>
     \/ /\ cover_pc' = "done"
        /\ cover_await' = "none"
        /\ cover_resp' = serialize_reply(PoolTimedOut, cover_format)
        /\ UNCHANGED asked
  /\ UNCHANGED <<art, cover, chunk_log, cover_id, cover_format, playlist,
                 cover_path>>
  /\ UNCHANGED <<dvars, pvars, svars, xvars>>

\* A round of the loop: the AlbumArt command answers, from the artwork the
\* backend has by then; the connection is dropped, then put_slice and the
\* comparison with the size of this answer.
CoverChunkCommand ==
  /\ cover_pc = "loop"
  /\ cover_await = "command"
  /\ \E r \in {Err(CommandFailed)} \cup AlbumArtAnswers(art, chunk_offset(cover)) :
       IF ~r.ok
       THEN /\ cover_pc' = "done"
            /\ cover_await' = "none"
            /\ cover_resp' = serialize_reply(r.err, cover_format)
            /\ UNCHANGED <<cover, chunk_log>>
       ELSE IF ~r.v.some
       THEN /\ cover_pc' = "done"
            /\ cover_await' = "none"
            /\ cover_resp' = serialize_reply(not_found, cover_format)
            /\ chunk_log' = Append(chunk_log, [offset |-> chunk_offset(cover),
                                               answer |-> None, of |-> art])
            /\ UNCHANGED cover
       ELSE /\ cover' = put_slice(cover, r.v.v.data)
            /\ chunk_log' = Append(chunk_log, [offset |-> chunk_offset(cover),
                                               answer |-> r.v, of |-> art])
            /\ IF cover_complete(put_slice(cover, r.v.v.data), r.v.v)
               THEN /\ cover_pc' = "done"
                    /\ cover_await' = "none"
                    /\ cover_resp' = cover_into_response(put_slice(cover, r.v.v.data), r.v.v)
               ELSE /\ cover_pc' = "loop"
                    /\ cover_await' = "pool.get"
                    /\ UNCHANGED cover_resp
  /\ UNCHANGED <<art, cover_id, cover_format, playlist, cover_path, asked>>
  /\ UNCHANGED <<dvars, pvars, svars, xvars>>

\* The artwork of the song is replaced at the backend while it is fetched,
\* between two rounds or between the acquisition and the answer of one.
ArtworkReplaced ==
  /\ cover_pc = "loop"
  /\ art' \in Artworks \ {art}
  /\ UNCHANGED <<cover_pc, cover_await, cover, chunk_log, cover_resp, cover_id,
                 cover_format, playlist, cover_path, asked>>
  /\ UNCHANGED <<dvars, pvars, svars, xvars>>

\* The response is sent.
CoverFinish ==
  /\ cover_pc = "done"
  /\ art' = NoArt
  /\ cover_pc' = "idle"
  /\ cover_await' = "none"
  /\ cover' = <<>>
  /\ chunk_log' = <<>>
  /\ cover_resp' = NoResponse
  /\ cover_id' = NoCover
  /\ cover_format' = NoFormat
  /\ playlist' = <<>>
  /\ cover_path' = None
  /\ asked' = <<>>
  /\ UNCHANGED <<dvars, pvars, svars, xvars>>

NextCover ==
  \/ CoverStart
  \/ CoverPathGet
  \/ CoverPathCommand
  \/ CoverChunkGet
  \/ CoverChunkCommand
  \/ ArtworkReplaced
  \/ CoverFinish

InitCover ==
  /\ auth = Authentication_new(T_bob, T_secret)
  /\ DispatchInit
  /\ PoolInit
  /\ MediaInit

SpecCover == InitCover /\ [][NextCover]_vars

\* The runtime runs the handler's task, and the pool and the backend answer
\* every call of the loop, with a value or with an error: the pool within
\* connection_timeout, the backend as the claim on the loop supposes.
\* Nothing obliges a request to come or the artwork to be replaced.
CoverFairness == WF_vars(CoverChunkGet) /\ WF_vars(CoverChunkCommand)

\* The loop alone: the request carries the identifier of a song, and the
\* artwork, whatever replaces it, has no MIME type.
CoverStartLoop == CoverStart /\ cover_pc' = "loop" /\ (art'.some => art'.mime = None)

ArtworkReplacedLoop == ArtworkReplaced /\ art'.mime = None

NextCoverLoop ==
  \/ CoverStartLoop
  \/ CoverChunkGet
  \/ CoverChunkCommand
  \/ ArtworkReplacedLoop
  \/ CoverFinish

SpecCoverLoop == InitCover /\ [][NextCoverLoop]_vars /\ CoverFairness

(***************************************************************************)
(* Audio streaming (api/retrieval.rs, stream): the source stream from the  *)
(* library, then the match on the format: the source as it is, or the      *)
(* encoder process between the source and the response.  The spawned task  *)
(* copies the source into the child's stdin, drops the stdin and waits for *)
(* the child; the response body reads the child's stdout.  The source, the *)
(* pipes, the child and the client are the environment: the source yields  *)
(* a chunk, its end or an error when it will, a pipe holds PipeCapacity    *)
(* chunks, the child reads, encodes and writes, ends at the end of its     *)
(* input, dies when it writes to a pipe nobody reads, and may fail at any  *)
(* time; the client reads the body or goes away.  Nothing in the program   *)
(* sets a time limit to any of them.                                       *)
(***************************************************************************)

\* static FFMPEG_BITRATES
FFMPEG_BITRATES == <<96, 112, 128, 160, 192>>

\* The chunks of the longest source, the chunks the buffer of the copy
\* holds, the chunks a pipe holds and the chunks the child holds between
\* reading and writing.
MaxSource == 3
CopyCapacity == 2
PipeCapacity == 1
MaxEncoding == 1

\* The values of format and maxBitRate of the requests.
StreamFormats == {None, Some(T_raw), Some(T_ogg), Some(T_mp3), Some(T_OGG), Some(<<>>)}
StreamBitrates ==
  {None} \cup {Some(b) : b \in {0, 1, 50, 95, 96, 97, 111, 112, 127, 128, 150,
                                160, 191, 192, 193, 10000, 2147483647}}

\* Library::get_song
get_song(lib) == IF lib = "present" THEN Ok("stream") ELSE Err(LibraryErrors[lib])

\* slice::partition_point(|&x| x <= b): the binary search of the standard
\* library between left and right.
RECURSIVE partition_point(_, _, _, _)
partition_point(s, b, left, right) ==
  IF left >= right THEN left
  ELSE LET mid == left + ((right - left) \div 2)
       IN  IF s[mid + 1] <= b
           THEN partition_point(s, b, mid + 1, right)
           ELSE partition_point(s, b, left, mid)

\* usize::wrapping_sub: below zero the result is past the end of every slice.
wrapping_sub(a, b) == IF a >= b THEN a - b ELSE 2147483647 - (b - a) + 1

\* usize::saturating_sub
saturating_sub(a, b) == IF a > b THEN a - b ELSE 0

\* slice::get
slice_get(s, i) == IF i < Len(s) THEN Some(s[i + 1]) ELSE None

\* The entry below the greatest one that fits: no saturating_sub(1) is
\* needed when the entries are counted with x < b.
stream_bitrate_strictly_below(max_bitrate) ==
  LET max_available_bitrate == FFMPEG_BITRATES[Len(FFMPEG_BITRATES)]
      max_desired_bitrate ==
        IF ~max_bitrate.some \/ max_bitrate.v = 0
        THEN max_available_bitrate ELSE max_bitrate.v
      entry == slice_get(FFMPEG_BITRATES,
                         saturating_sub(partition_point(FFMPEG_BITRATES,
                                                        max_desired_bitrate - 1,
                                                        0, Len(FFMPEG_BITRATES)), 1))
  IN  (IF entry.some THEN entry.v ELSE max_available_bitrate) * 1024

\* The bitrate argument of the encoder (retrieval.rs:128-141).
stream_bitrate(max_bitrate) ==
  LET max_available_bitrate == FFMPEG_BITRATES[Len(FFMPEG_BITRATES)]
      max_desired_bitrate ==
        IF ~max_bitrate.some \/ max_bitrate.v = 0
        THEN max_available_bitrate ELSE max_bitrate.v
      entry == slice_get(FFMPEG_BITRATES,
                         saturating_sub(partition_point(FFMPEG_BITRATES,
                                                        max_desired_bitrate,
                                                        0, Len(FFMPEG_BITRATES)), 1))
  IN  (IF entry.some THEN entry.v ELSE max_available_bitrate) * 1024

\* Command::new("ffmpeg").kill_on_drop(true)
kill_on_drop == TRUE

\* The stdin is kept while the child is waited for.
drop_stdin_forgotten(w) == w

\* drop(stdin): the write end of the pipe is closed.
drop_stdin(w) == "closed"

\* The child's stdout is taken from the child and read by the response body
\* alone: when the body is dropped nobody reads the pipe.
stdout_read_by(b) == b = "open"

\* A request reaches stream with its query extracted; the wrapper has read
\* the format of the reply off the query (glue.rs:132).
StreamStart ==
  /\ stream_pc = "idle"
  /\ \E f \in StreamFormats, b \in StreamBitrates :
       params' = [format |-> f, max_bitrate |-> b]
  /\ \E q \in WrapperFormatParts : stream_format' = serialization_format(q)
  /\ library' \in DOMAIN LibraryErrors \cup {"present"}
  /\ stream_pc' = "open"
  /\ UNCHANGED <<lib_opens, spawns, ffmpeg, stream_resp, src_left, copy_buf,
                 stdin_w, stdin_buf, enc, stdout_buf, child, feeder, body>>
  /\ UNCHANGED warned
  /\ UNCHANGED <<dvars, pvars, cvars, xvars>>

\* state.lib.get_song(&params.song.path).await?
StreamOpen ==
  /\ stream_pc = "open"
  /\ lib_opens' = lib_opens + 1
  /\ LET r == get_song(library)
     IN  IF r.ok
         THEN /\ stream_pc' = "respond"
              /\ src_left' \in 0..MaxSource
              /\ UNCHANGED stream_resp
         ELSE /\ stream_pc' = "done"
              /\ stream_resp' = serialize_reply(From_library_Error(r.err),
                                                stream_format)
              /\ UNCHANGED src_left
  /\ UNCHANGED <<stream_format, params, library, spawns, ffmpeg, copy_buf,
                 stdin_w, stdin_buf, enc, stdout_buf, child, feeder, body>>
  /\ UNCHANGED warned
  /\ UNCHANGED <<dvars, pvars, cvars, xvars>>

\* The match on the format: the source itself, the encoder spawned with the
\* task that feeds it, or the error of an unsupported format, the source
\* dropped.  The spawn may fail, and its error is the reply.
StreamRespond ==
  /\ stream_pc = "respond"
  /\ CASE format_arm(params.format) = "raw" ->
            /\ stream_pc' = "streaming"
            /\ stream_resp' = [kind |-> "stream", of |-> "source"]
            /\ body' = "open"
            /\ UNCHANGED <<spawns, ffmpeg, src_left, stdin_w, child, feeder>>
       [] format_arm(params.format) = "ogg" ->
            \/ /\ spawns' = spawns + 1
               /\ ffmpeg' = Some(stream_bitrate(params.max_bitrate))
               /\ child' = "running"
               /\ stdin_w' = "open"
               /\ feeder' = "copy"
               /\ body' = "open"
               /\ stream_pc' = "streaming"
               /\ stream_resp' = [kind |-> "stream", of |-> "stdout"]
               /\ UNCHANGED src_left
            \/ /\ \E err \in SpawnErrors :
                    stream_resp' = serialize_reply(From_io_Error(err),
                                                   stream_format)
               /\ stream_pc' = "done"
               /\ src_left' = 0
               /\ UNCHANGED <<spawns, ffmpeg, stdin_w, child, feeder, body>>
       [] format_arm(params.format) = "other" ->
            /\ stream_pc' = "done"
            /\ stream_resp' =
                 serialize_reply(generic_error(Some("unsupported format")),
                                 stream_format)
            /\ src_left' = 0
            /\ UNCHANGED <<spawns, ffmpeg, stdin_w, child, feeder, body>>
  /\ UNCHANGED <<stream_format, params, library, lib_opens, copy_buf,
                 stdin_buf, enc, stdout_buf>>
  /\ UNCHANGED warned
  /\ UNCHANGED <<dvars, pvars, cvars, xvars>>

\* tokio::io::copy returns, with an error (which is logged) or without: the
\* reader over the source, a temporary of the if-let, is dropped with what
\* the copy had read and not written; the stdin is dropped; the task goes
\* on to child.wait() (retrieval.rs:170-176).
CopyEnds(failed) ==
  /\ feeder' = "wait"
  /\ src_left' = 0
  /\ copy_buf' = 0
  /\ stdin_w' = drop_stdin(stdin_w)
  /\ warned' = IF failed THEN warned \cup {"copy"} ELSE warned

\* The copy reads the source when the source answers: a chunk, kept until
\* it is written; the end, after which what is kept is written out and the
\* copy returns; or an error, with which the copy returns at once.
CopyReads ==
  /\ feeder = "copy"
  /\ copy_buf < CopyCapacity
  /\ \/ /\ src_left > 0
        /\ src_left' = src_left - 1
        /\ copy_buf' = copy_buf + 1
        /\ UNCHANGED <<feeder, stdin_w, warned>>
     \/ /\ src_left = 0
        /\ IF copy_buf = 0
           THEN CopyEnds(FALSE)
           ELSE /\ feeder' = "drain"
                /\ UNCHANGED <<src_left, copy_buf, stdin_w, warned>>
     \/ /\ src_left > 0
        /\ CopyEnds(TRUE)
  /\ UNCHANGED <<stream_pc, stream_format, params, library, lib_opens, spawns,
                 ffmpeg, stream_resp, stdin_buf, enc, stdout_buf, child, body>>
  /\ UNCHANGED <<dvars, pvars, cvars, xvars>>

\* The copy writes a chunk it keeps into the stdin when the pipe has room,
\* and returns when the last chunk is written after the end of the source;
\* the write fails when the child has gone, and the copy returns the error.
CopyWrites ==
  /\ feeder \in {"copy", "drain"}
  /\ copy_buf > 0
  /\ IF child = "running"
     THEN /\ stdin_buf < PipeCapacity
          /\ stdin_buf' = stdin_buf + 1
          /\ IF feeder = "drain" /\ copy_buf = 1
             THEN CopyEnds(FALSE)
             ELSE /\ copy_buf' = copy_buf - 1
                  /\ UNCHANGED <<feeder, src_left, stdin_w, warned>>
     ELSE /\ CopyEnds(TRUE)
          /\ UNCHANGED stdin_buf
  /\ UNCHANGED <<stream_pc, stream_format, params, library, lib_opens, spawns,
                 ffmpeg, stream_resp, enc, stdout_buf, child, body>>
  /\ UNCHANGED <<dvars, pvars, cvars, xvars>>

\* The task: child.wait() returns when the child has exited and reaps it;
\* the task ends.
FeederWait ==
  /\ feeder = "wait"
  /\ child = "exited"
  /\ child' = "reaped"
  /\ feeder' = "done"
  /\ UNCHANGED <<stream_pc, stream_format, params, library, lib_opens, spawns,
                 ffmpeg, stream_resp, src_left, copy_buf, stdin_w, stdin_buf,
                 enc, stdout_buf, body>>
  /\ UNCHANGED warned
  /\ UNCHANGED <<dvars, pvars, cvars, xvars>>

\* The task: child.wait() fails, which is logged; the task ends and drops
\* the child, which is killed if it still runs and kill_on_drop is set.
FeederWaitFails ==
  /\ feeder = "wait"
  /\ child \in {"running", "exited"}
  /\ IF kill_on_drop
     THEN /\ child' = "exited"
          /\ stdin_buf' = 0
          /\ enc' = 0
     ELSE UNCHANGED <<child, stdin_buf, enc>>
  /\ feeder' = "done"
  /\ UNCHANGED <<stream_pc, stream_format, params, library, lib_opens, spawns,
                 ffmpeg, stream_resp, src_left, copy_buf, stdin_w, stdout_buf,
                 body>>
  /\ warned' = warned \cup {"wait"}
  /\ UNCHANGED <<dvars, pvars, cvars, xvars>>

\* The runtime reaps a child that was dropped before it was waited for.
ReapOrphan ==
  /\ feeder = "done"
  /\ child = "exited"
  /\ child' = "reaped"
  /\ UNCHANGED <<stream_pc, stream_format, params, library, lib_opens, spawns,
                 ffmpeg, stream_resp, src_left, copy_buf, stdin_w, stdin_buf,
                 enc, stdout_buf, feeder, body>>
  /\ UNCHANGED warned
  /\ UNCHANGED <<dvars, pvars, cvars, xvars>>

\* The child reads a chunk of its input.
ChildRead ==
  /\ child = "running"
  /\ stdin_buf > 0
  /\ enc < MaxEncoding
  /\ stdin_buf' = stdin_buf - 1
  /\ enc' = enc + 1
  /\ UNCHANGED <<stream_pc, stream_format, params, library, lib_opens, spawns,
                 ffmpeg, stream_resp, src_left, copy_buf, stdin_w, stdout_buf,
                 child, feeder, body>>
  /\ UNCHANGED warned
  /\ UNCHANGED <<dvars, pvars, cvars, xvars>>

\* The child writes a chunk of its output, and dies of the write when
\* nobody reads the pipe.
ChildWrite ==
  /\ child = "running"
  /\ enc > 0
  /\ IF stdout_read_by(body)
     THEN /\ stdout_buf < PipeCapacity
          /\ stdout_buf' = stdout_buf + 1
          /\ enc' = enc - 1
          /\ UNCHANGED <<child, stdin_buf>>
     ELSE /\ child' = "exited"
          /\ enc' = 0
          /\ stdin_buf' = 0
          /\ UNCHANGED stdout_buf
  /\ UNCHANGED <<stream_pc, stream_format, params, library, lib_opens, spawns,
                 ffmpeg, stream_resp, src_left, copy_buf, stdin_w, feeder, body>>
  /\ UNCHANGED warned
  /\ UNCHANGED <<dvars, pvars, cvars, xvars>>

\* The child finds the end of its input, all output written, and exits.
ChildEnds ==
  /\ child = "running"
  /\ stdin_w = "closed"
  /\ stdin_buf = 0
  /\ enc = 0
  /\ child' = "exited"
  /\ UNCHANGED <<stream_pc, stream_format, params, library, lib_opens, spawns,
                 ffmpeg, stream_resp, src_left, copy_buf, stdin_w, stdin_buf,
                 enc, stdout_buf, feeder, body>>
  /\ UNCHANGED warned
  /\ UNCHANGED <<dvars, pvars, cvars, xvars>>

\* The child fails: it exits with its input unread.
ChildFails ==
  /\ child = "running"
  /\ child' = "exited"
  /\ stdin_buf' = 0
  /\ enc' = 0
  /\ UNCHANGED <<stream_pc, stream_format, params, library, lib_opens, spawns,
                 ffmpeg, stream_resp, src_left, copy_buf, stdin_w, stdout_buf,
                 feeder, body>>
  /\ UNCHANGED warned
  /\ UNCHANGED <<dvars, pvars, cvars, xvars>>

\* The body of a transcoded response: ReaderStream::new(stdout) yields a
\* chunk of the pipe, or ends when the pipe is empty and the child has gone.
BodyReads ==
  /\ body = "open"
  /\ stream_resp.of = "stdout"
  /\ \/ /\ stdout_buf > 0
        /\ stdout_buf' = stdout_buf - 1
        /\ UNCHANGED body
     \/ /\ stdout_buf = 0
        /\ child \in {"exited", "reaped"}
        /\ body' = "ended"
        /\ UNCHANGED stdout_buf
  /\ UNCHANGED <<stream_pc, stream_format, params, library, lib_opens, spawns,
                 ffmpeg, stream_resp, src_left, copy_buf, stdin_w, stdin_buf,
                 enc, child, feeder>>
  /\ UNCHANGED warned
  /\ UNCHANGED <<dvars, pvars, cvars, xvars>>

\* The body of a raw response: the source stream itself, to its end or to
\* its first error.
BodyReadsSource ==
  /\ body = "open"
  /\ stream_resp.of = "source"
  /\ \/ /\ src_left > 0
        /\ src_left' = src_left - 1
        /\ UNCHANGED body
     \/ /\ src_left' = 0
        /\ body' = "ended"
  /\ UNCHANGED <<stream_pc, stream_format, params, library, lib_opens, spawns,
                 ffmpeg, stream_resp, copy_buf, stdin_w, stdin_buf, enc,
                 stdout_buf, child, feeder>>
  /\ UNCHANGED warned
  /\ UNCHANGED <<dvars, pvars, cvars, xvars>>

\* The client goes away: the response body is dropped, and with it the
\* stream it reads.  The task is detached and owns the child: neither is
\* told.
Disconnect ==
  /\ body = "open"
  /\ body' = "dropped"
  /\ stdout_buf' = 0
  /\ src_left' = IF stream_resp.of = "source" THEN 0 ELSE src_left
  /\ UNCHANGED <<stream_pc, stream_format, params, library, lib_opens, spawns,
                 ffmpeg, stream_resp, copy_buf, stdin_w, stdin_buf, enc, child,
                 feeder>>
  /\ UNCHANGED warned
  /\ UNCHANGED <<dvars, pvars, cvars, xvars>>

\* Nothing of the request is left: the response is over, the task has
\* ended and the child is reaped.
SessionOver ==
  /\ body \in {"none", "ended", "dropped"}
  /\ feeder \in {"none", "done"}
  /\ child \in {"none", "reaped"}

StreamFinish ==
  /\ stream_pc \in {"done", "streaming"}
  /\ stream_pc = "streaming" => body # "open"
  /\ SessionOver
  /\ stream_pc' = "idle"
  /\ stream_format' = NoFormat
  /\ params' = NoParams
  /\ library' = "none"
  /\ lib_opens' = 0
  /\ spawns' = 0
  /\ ffmpeg' = None
  /\ stream_resp' = NoResponse
  /\ src_left' = 0
  /\ copy_buf' = 0
  /\ stdin_w' = "none"
  /\ stdin_buf' = 0
  /\ enc' = 0
  /\ stdout_buf' = 0
  /\ child' = "none"
  /\ feeder' = "none"
  /\ body' = "none"
  /\ warned' = {}
  /\ UNCHANGED <<dvars, pvars, cvars, xvars>>

NextStream ==
  \/ StreamStart
  \/ StreamOpen
  \/ StreamRespond
  \/ CopyReads
  \/ CopyWrites
  \/ FeederWait
  \/ FeederWaitFails
  \/ ReapOrphan
  \/ ChildRead
  \/ ChildWrite
  \/ ChildEnds
  \/ ChildFails
  \/ BodyReads
  \/ BodyReadsSource
  \/ Disconnect
  \/ StreamFinish

InitStream ==
  /\ auth = Authentication_new(T_bob, T_secret)
  /\ DispatchInit
  /\ PoolInit
  /\ MediaInit

\* What the program and its runtime do by themselves: the handler goes on
\* after the library has answered, the runtime polls the task when the pipe
\* takes a chunk or the child has gone, child.wait() returns when the child
\* has exited, and the runtime reaps a dropped child that has exited.  The
\* library, the source, the child and the client are not the program's: no
\* step of theirs is promised.
StreamFairness ==
  /\ WF_vars(StreamRespond)
  /\ WF_vars(CopyWrites)
  /\ WF_vars(FeederWait)
  /\ WF_vars(ReapOrphan)

\* The source answers every read: with a chunk, its end or an error.
SourceAnswers == WF_vars(CopyReads)

\* The encoder reads its input while it has room, writes its output while
\* the pipe takes it, and exits at the end of its input.
EncoderRuns ==
  /\ WF_vars(ChildRead)
  /\ WF_vars(ChildWrite)
  /\ WF_vars(ChildEnds)

\* The client reads the body as long as it is connected.
ClientReads == WF_vars(BodyReads)

SpecStream == InitStream /\ [][NextStream]_vars /\ StreamFairness

(***************************************************************************)
(* The identifiers on the wire (api/types.rs): an identifier is converted  *)
(* to a token when a reply is serialized, and a token of a request is      *)
(* converted to the identifier of the type the handler declares.           *)
(***************************************************************************)

MaxTextLen == 2
MaxMembers == 2

\* The characters of the field values: a letter, the slash, the quote and
\* the line feed that JSON escapes, and a letter past ASCII (U+00E9).
TextAlphabet == {"a", "/", "DQUOTE", "LF", "233"}

RECURSIVE TextsOf(_)
TextsOf(n) ==
  IF n = 0 THEN {<<>>}
  ELSE TextsOf(n - 1)
       \cup {Append(s, c) : s \in {x \in TextsOf(n - 1) : Len(x) = n - 1},
                            c \in TextAlphabet}

Texts == TextsOf(MaxTextLen)

T_alpha == <<"a", "l", "p", "h", "a">>
T_beta == <<"b", "e", "t", "a">>
T_moo1 == <<"m", "o", "o", "1">>
T_song1 == <<"s", "o", "n", "g", "1">>
T_artwork == <<"a", "r", "t", "w", "o", "r", "k">>
T_metal == <<"m", "e", "t", "a", "l">>
T_rock == <<"r", "o", "c", "k">>

\* The identifiers of the repository's tests and the tokens the tests expect
\* for them (api/browsing.rs and api/playlists.rs, mod tests).
TestTokens ==
  {
   [type |-> "ArtistID", id |-> [name |-> T_alpha],
    token |-> <<"e", "y", "J", "u", "Y", "W", "1", "l", "I", "j", "o", "i",
                "Y", "W", "x", "w", "a", "G", "E", "i", "f", "Q", "=", "=">>],
   [type |-> "ArtistID", id |-> [name |-> T_moo1],
    token |-> <<"e", "y", "J", "u", "Y", "W", "1", "l", "I", "j", "o", "i",
                "b", "W", "9", "v", "M", "S", "J", "9">>],
   [type |-> "AlbumID", id |-> [name |-> T_alpha, artist |-> T_beta],
    token |-> <<"e", "y", "J", "u", "Y", "W", "1", "l", "I", "j", "o", "i",
                "Y", "W", "x", "w", "a", "G", "E", "i", "L", "C", "J", "h",
                "c", "n", "R", "p", "c", "3", "Q", "i", "O", "i", "J", "i",
                "Z", "X", "R", "h", "I", "n", "0", "=">>],
   [type |-> "SongID", id |-> [path |-> T_song1],
    token |-> <<"e", "y", "J", "w", "Y", "X", "R", "o", "I", "j", "o", "i",
                "c", "2", "9", "u", "Z", "z", "E", "i", "f", "Q", "=", "=">>],
   [type |-> "CoverArtID", id |-> [variant |-> "Song", path |-> T_artwork],
    token |-> <<"e", "y", "J", "w", "Y", "X", "R", "o", "I", "j", "o", "i",
                "Y", "X", "J", "0", "d", "2", "9", "y", "a", "y", "J", "9">>],
   [type |-> "PlaylistID", id |-> [name |-> T_metal],
    token |-> <<"e", "y", "J", "u", "Y", "W", "1", "l", "I", "j", "o", "i",
                "b", "W", "V", "0", "Y", "W", "w", "i", "f", "Q", "=", "=">>],
   [type |-> "PlaylistID", id |-> [name |-> T_rock],
    token |-> <<"e", "y", "J", "u", "Y", "W", "1", "l", "I", "j", "o", "i",
                "c", "m", "9", "j", "a", "y", "J", "9">>]
  }

\* The tokens of identifiers of at most one letter: the base64 text, with
\* padding, of the JSON object without white space.
ShortTokens ==
  {
   [type |-> "SongID", id |-> [path |-> <<"a">>],
    token |-> <<"e", "y", "J", "w", "Y", "X", "R", "o", "I", "j", "o", "i",
                "Y", "S", "J", "9">>],
   [type |-> "ArtistID", id |-> [name |-> <<>>],
    token |-> <<"e", "y", "J", "u", "Y", "W", "1", "l", "I", "j", "o", "i",
                "I", "n", "0", "=">>],
   [type |-> "AlbumID", id |-> [name |-> <<"a">>, artist |-> <<>>],
    token |-> <<"e", "y", "J", "u", "Y", "W", "1", "l", "I", "j", "o", "i",
                "Y", "S", "I", "s", "I", "m", "F", "y", "d", "G", "l", "z",
                "d", "C", "I", "6", "I", "i", "J", "9">>],
   [type |-> "PlaylistID", id |-> [name |-> <<"a">>],
    token |-> <<"e", "y", "J", "u", "Y", "W", "1", "l", "I", "j", "o", "i",
                "Y", "S", "J", "9">>],
   [type |-> "CoverArtID", id |-> [variant |-> "Song", path |-> <<"a">>],
    token |-> <<"e", "y", "J", "w", "Y", "X", "R", "o", "I", "j", "o", "i",
                "Y", "S", "J", "9">>],
   [type |-> "CoverArtID", id |-> [variant |-> "Playlist", name |-> <<>>],
    token |-> <<"e", "y", "J", "u", "Y", "W", "1", "l", "I", "j", "o", "i",
                "I", "n", "0", "=">>],
   [type |-> "CoverArtID", id |-> [variant |-> "Playlist", name |-> <<"a">>],
    token |-> <<"e", "y", "J", "u", "Y", "W", "1", "l", "I", "j", "o", "i",
                "Y", "S", "J", "9">>]
  }

KnownTokens == TestTokens \cup ShortTokens

\* The identifiers of a type.
IDsOf(T) ==
  CASE T = "ArtistID"   -> {[name |-> n] : n \in Texts}
    [] T = "AlbumID"    -> {[name |-> n, artist |-> a] : n \in Texts, a \in Texts}
    [] T = "SongID"     -> {[path |-> x] : x \in Texts}
    [] T = "PlaylistID" -> {[name |-> n] : n \in Texts}
    [] T = "CoverArtID" ->
         {[variant |-> "Song", path |-> x] : x \in Texts}
         \cup {[variant |-> "Playlist", name |-> n] : n \in Texts}

\* The members of the JSON objects sent by a client.
WireMembers ==
  {<<n, v>> : n \in {T_name, T_path, T_artist}, v \in {<<>>, <<"a">>}}

RECURSIVE MemberLists(_)
MemberLists(n) ==
  IF n = 0 THEN {<<>>}
  ELSE MemberLists(n - 1)
       \cup {Append(ms, m) : ms \in {x \in MemberLists(n - 1) : Len(x) = n - 1},
                             m \in WireMembers}

\* Payloads of a client that does not write JSON as the server does:
\* with white space between the tokens;
\* with escapes in a key and in a value;
\* with a member of another name that is a number;
\* with a member of another name that is an array;
\* with a field that is a number;
\* an array of one text;
\* an array of two texts;
\* an array with a trailing comma;
\* an object with a raw line feed in a text;
\* an object with a text past ASCII and a raw DEL;
\* an object with a member of another name whose text is not UTF-8;
\* with a member of another name whose text has a surrogate alone;
\* with a member of another name that is the least number out of the range
\* of f64 at its exponent, and that is the number before it.
OddPayloads ==
  {as_bytes(x) : x \in {
    <<"{", "DQUOTE", "p", "a", "t", "h", "DQUOTE", ":", "DQUOTE", "a",
      "DQUOTE", ",", "DQUOTE", "x", "DQUOTE", ":", "DQUOTE", "BACKSLASH", "u",
      "d", "8", "0", "0", "DQUOTE", "}">>,
    <<"{", "DQUOTE", "p", "a", "t", "h", "DQUOTE", ":", "DQUOTE", "a",
      "DQUOTE", ",", "DQUOTE", "x", "DQUOTE", ":", "1", ".", "7", "9", "7",
      "6", "9", "3", "1", "3", "4", "8", "6", "2", "3", "1", "5", "8", "e",
      "3", "0", "8", "}">>,
    <<"{", "DQUOTE", "p", "a", "t", "h", "DQUOTE", ":", "DQUOTE", "a",
      "DQUOTE", ",", "DQUOTE", "x", "DQUOTE", ":", "1", ".", "7", "9", "7",
      "6", "9", "3", "1", "3", "4", "8", "6", "2", "3", "1", "5", "7", "e",
      "3", "0", "8", "}">>,
    <<"{", " ", "DQUOTE", "p", "a", "t", "h", "DQUOTE", " ", ":", " ",
      "DQUOTE", "a", "DQUOTE", " ", "}">>,
    <<"{", "DQUOTE", "p", "BACKSLASH", "u", "0", "0", "6", "1", "t", "h",
      "DQUOTE", ":", "DQUOTE", "a", "BACKSLASH", "n", "DQUOTE", "}">>,
    <<"{", "DQUOTE", "p", "a", "t", "h", "DQUOTE", ":", "DQUOTE", "a",
      "DQUOTE", ",", "DQUOTE", "x", "DQUOTE", ":", "1", "}">>,
    <<"{", "DQUOTE", "n", "a", "m", "e", "DQUOTE", ":", "DQUOTE", "n",
      "DQUOTE", ",", "DQUOTE", "x", "DQUOTE", ":", "[", "t", "r", "u", "e",
      ",", "{", "DQUOTE", "y", "DQUOTE", ":", "-", "0", ".", "5", "e", "3",
      "}", "]", "}">>,
    <<"{", "DQUOTE", "p", "a", "t", "h", "DQUOTE", ":", "1", ",", "DQUOTE",
      "n", "a", "m", "e", "DQUOTE", ":", "DQUOTE", "n", "DQUOTE", "}">>,
    <<"[", "DQUOTE", "a", "DQUOTE", "]">>,
    <<"[", "DQUOTE", "n", "DQUOTE", ",", "DQUOTE", "r", "DQUOTE", "]">>,
    <<"[", "DQUOTE", "a", "DQUOTE", ",", "]">>,
    <<"{", "DQUOTE", "p", "a", "t", "h", "DQUOTE", ":", "DQUOTE", "a",
      "LF", "b", "DQUOTE", "}">>,
    <<"{", "DQUOTE", "p", "a", "t", "h", "DQUOTE", ":", "DQUOTE", "233",
      "DEL", "DQUOTE", "}">>}}
  \cup {as_bytes(<<"{", "DQUOTE", "p", "a", "t", "h", "DQUOTE", ":", "DQUOTE",
                   "a", "DQUOTE", ",", "DQUOTE", "x", "DQUOTE", ":", "DQUOTE">>)
          \o <<255>> \o as_bytes(<<"DQUOTE", "}">>)}

\* The bytes under the tokens sent by a client: an object, an object cut
\* short, an object followed by another byte, and the odd payloads.
WirePayloads ==
  LET objects == {JsonObject(ms) : ms \in MemberLists(MaxMembers)}
  IN  objects
      \cup {SubSeq(o, 1, Len(o) - 1) : o \in objects}
      \cup {o \o <<Ord("x")>> : o \in objects}
      \cup OddPayloads

\* The tokens sent by a client: the base64 of a payload, the same after
\* the prefix of the playlist covers, the same without its last character
\* and the same with a character outside the alphabet.
WireTokens ==
  LET good == {base64_encode(b) : b \in WirePayloads}
  IN  good
      \cup {T_pl \o g : g \in good}
      \cup {SubSeq(g, 1, Len(g) - 1) : g \in good}
      \cup {<<"-">> \o Tail(g) : g \in good}

\* A reply carrying an identifier the handler made is serialized:
\* api_id_serialize calls try_into.
Encode ==
  /\ codec_pc = "idle"
  /\ \E T \in IDTypes :
       \E id \in IDsOf(T) \cup {k.id : k \in {x \in TestTokens : x.type = T}} :
         /\ ident' = [type |-> T, id |-> id, from |-> None]
         /\ tokens' = <<try_into_string(T, id)>>
  /\ codec_pc' = "encoded"
  /\ UNCHANGED <<wire, decoded>>
  /\ UNCHANGED <<dvars, pvars, cvars, svars, evars, lvars>>

\* A reply carrying the identifier a client sent is serialized: the
\* identifier comes from the client's token, the token of the reply from
\* try_into.
Reencode ==
  /\ codec_pc = "decoded"
  /\ ident = NoIdent
  /\ decoded.ok
  /\ ident' = [type |-> wire.type, id |-> decoded.id, from |-> Some(wire.token)]
  /\ tokens' = <<try_into_string(wire.type, decoded.id)>>
  /\ codec_pc' = "encoded"
  /\ UNCHANGED <<wire, decoded>>
  /\ UNCHANGED <<dvars, pvars, cvars, svars, evars, lvars>>

\* The client sends a token it was given back: api_id_deserialize calls
\* try_from of the type of the parameter.
DecodeOwn ==
  /\ codec_pc = "encoded"
  /\ wire' = [type |-> ident.type, token |-> tokens[Len(tokens)]]
  /\ decoded' = try_from(ident.type, tokens[Len(tokens)])
  /\ codec_pc' = "decoded"
  /\ UNCHANGED <<ident, tokens>>
  /\ UNCHANGED <<dvars, pvars, cvars, svars, evars, lvars>>

\* The client sends a token of its own to a parameter of the type T.
DecodeWire ==
  /\ codec_pc = "idle"
  /\ \E T \in IDTypes :
       \E s \in WireTokens :
         /\ wire' = [type |-> T, token |-> s]
         /\ decoded' = try_from(T, s)
  /\ codec_pc' = "decoded"
  /\ UNCHANGED <<ident, tokens>>
  /\ UNCHANGED <<dvars, pvars, cvars, svars, evars, lvars>>

NextCodec ==
  \/ Encode
  \/ Reencode
  \/ DecodeOwn
  \/ DecodeWire

InitCodec ==
  /\ auth = Authentication_new(T_bob, T_secret)
  /\ DispatchInit
  /\ PoolInit
  /\ MediaInit

SpecCodec == InitCodec /\ [][NextCodec]_vars

(***************************************************************************)
(* The failures below a handler and their way to the client: the ? of the  *)
(* handler converts the failure into the API error (api/error.rs) and the  *)
(* wrapper renders the error (api/glue.rs).                                *)
(***************************************************************************)

\* The errors of the library (library.rs): an I/O or NFS error of a kind,
\* an URL that does not parse, an HTTP error with or without a status.
LibraryFailures ==
  {[variant |-> v, kind |-> k] :
     v \in {"IO", "NFS"}, k \in {"NotFound", "PermissionDenied", "Other"}}
  \cup {[variant |-> "Url"]}
  \cup {[variant |-> "Http", status |-> s] : s \in {None, Some(404), Some(500)}}

\* The failures a handler meets, each with the text it displays.
Failures ==
  {[source |-> "QueryRejection", text |-> x] :
     x \in {"Failed to deserialize query string", "missing field"}}
  \cup {[source |-> "ExtensionRejection", text |-> "Missing request extension"]}
  \cup {[source |-> "CommandError", text |-> x] :
          x \in {"command error", "connection closed"}}
  \cup {[source |-> "RunError", text |-> x] :
          x \in {"Timed out in bb8", "connection closed"}}
  \cup {[source |-> "library::Error", text |-> "library error", err |-> e] :
          e \in LibraryFailures}
  \cup {[source |-> "io::Error", text |-> x] :
          x \in SpawnErrors \cup {"Broken pipe (os error 32)"}}
  \cup {[source |-> "listenbrainz::Error", err |-> e,
         text |-> listenbrainz_Error_fmt(e)] :
          e \in {SongWithoutMetadata,
                 RequestFailure(T_submit_listens),
                 RequestFailure(T_recording_feedback),
                 [variant |-> "Header", inner |-> "InvalidHeaderValue"]}}

\* From<..> for Error, by the type of the failure.
Error_from(f) ==
  CASE f.source = "QueryRejection"      -> From_QueryRejection(f.text)
    [] f.source = "ExtensionRejection"  -> From_ExtensionRejection
    [] f.source = "CommandError"        -> From_CommandError(f.text)
    [] f.source = "RunError"            -> From_RunError(f.text)
    [] f.source = "library::Error"      -> From_library_Error(f.err)
    [] f.source = "io::Error"           -> From_io_Error(f.text)
    [] f.source = "listenbrainz::Error" -> From_listenbrainz_Error(f.err)

\* An operation below a handler, or an extractor, returns an error.
FailureRaised ==
  /\ fail_pc = "idle"
  /\ failure' \in Failures
  /\ fail_query' \in FormatParts
  /\ fail_pc' = "raised"
  /\ UNCHANGED <<fail_error, fail_resp>>
  /\ UNCHANGED <<dvars, pvars, cvars, svars, kvars, lvars>>

\* The ? operator, or rejection.into(): the failure becomes the API error.
FailureConverted ==
  /\ fail_pc = "raised"
  /\ fail_error' = Error_from(failure)
  /\ fail_pc' = "converted"
  /\ UNCHANGED <<failure, fail_query, fail_resp>>
  /\ UNCHANGED <<dvars, pvars, cvars, svars, kvars, lvars>>

\* Handler::call: Err(error) => serialize_reply(error, &format).
FailureReplied ==
  /\ fail_pc = "converted"
  /\ fail_resp' = serialize_reply(fail_error, serialization_format(fail_query))
  /\ fail_pc' = "replied"
  /\ UNCHANGED <<failure, fail_query, fail_error>>
  /\ UNCHANGED <<dvars, pvars, cvars, svars, kvars, lvars>>

NextFailure ==
  \/ FailureRaised
  \/ FailureConverted
  \/ FailureReplied

InitFailure ==
  /\ auth = Authentication_new(T_bob, T_secret)
  /\ DispatchInit
  /\ PoolInit
  /\ MediaInit

SpecFailure == InitFailure /\ [][NextFailure]_vars

(***************************************************************************)
(* The handlers of the stored playlists (api/playlists.rs) and the pooled  *)
(* connections a handler holds.  A handler is what it does with the pool   *)
(* and the backend, in order: pool.get(), a command or a command list on   *)
(* the connection, the drop of the connection (of a temporary at the end   *)
(* of its statement, of a binding by drop or at the end of its scope) and  *)
(* the return.  Every ? returns the error and drops what is held.  The     *)
(* backend executes the commands of a list in order and stops at the first *)
(* one it refuses; what the earlier ones did stays.                        *)
(***************************************************************************)

\* The parameters of a query that repeat: at most so many.
MaxParams == 2

\* The albums of an artist: at most so many.
MaxAlbums == 2

Get == [op |-> "get"]
CommandList(cmds) == [op |-> "command_list", cmds |-> cmds]
Command(cmd) == CommandList(<<cmd>>)
CommandListOfAnswer == [op |-> "command_list_of_answer"]
Drop == [op |-> "drop"]
ClientCommandList(cmds) == [op |-> "client_command_list", cmds |-> cmds]
ClientCommand(cmd) == ClientCommandList(<<cmd>>)
Return(result) == [op |-> "return", result |-> result]

\* The commands of the backend's protocol the handlers send.
GetPlaylists == [cmd |-> "listplaylists"]
GetPlaylist(name) == [cmd |-> "listplaylistinfo", name |-> name]
SaveQueueAsPlaylist(name) == [cmd |-> "save", name |-> name]
RemoveFromPlaylist_position(name, idx) ==
  [cmd |-> "playlistdelete", name |-> name, position |-> idx]
RemoveFromPlaylist_range_full(name) == [cmd |-> "playlistdelete", name |-> name, from |-> 0]
AddToPlaylist(name, path) == [cmd |-> "playlistadd", name |-> name, path |-> path]
RenamePlaylist(from, to) == [cmd |-> "rename", name |-> from, to |-> to]
DeletePlaylist(name) == [cmd |-> "rm", name |-> name]
AlbumArt(round) == [cmd |-> "readpicture", round |-> round]
StickerSet(uri, name, value) ==
  [cmd |-> "sticker set", uri |-> uri, name |-> name, value |-> value]
StickerDelete(uri, name) == [cmd |-> "sticker delete", uri |-> uri, name |-> name]
Find(file) == [cmd |-> "find", file |-> file]
FindAlbum(n) == [cmd |-> "find", album |-> n]
List(tag) == [cmd |-> "list", tag |-> tag]
Count(tag) == [cmd |-> "count", tag |-> tag]
Update == [cmd |-> "update"]
Stats == [cmd |-> "stats"]
Status == [cmd |-> "status"]

\* songs.first().ok_or_else(Error::not_found)? on the songs Find answered
First == [op |-> "first", of |-> "find"]

\* songs.first()...ok_or_else(Error::not_found)? on the songs of the
\* playlist GetPlaylist answered
FirstOfPlaylist == [op |-> "first", of |-> "playlist"]

\* .ok_or_else(Error::not_found)? on the answer to AlbumArt, in the
\* statement of the command
Artwork == [op |-> "artwork"]

\* OffsetDateTime::now_utc().format(&Rfc3339).map_err(..)?, an argument of
\* the command, evaluated after the connection was acquired
Format == [op |-> "format"]

\* listenbrainz.feedback(song, score).await?
Feedback(score) == [op |-> "feedback", score |-> score]

\* listenbrainz.listen(song, time).await?
Listen == [op |-> "listen"]

\* listenbrainz.playing_now(song).await?
PlayingNow == [op |-> "playing_now"]

STICKER_RATING == <<"r", "a", "t", "i", "n", "g">>

\* annotation.rs imports STICKER_STARRED from common.rs, which does not
\* define it: the name of the sticker, whatever its text.
STICKER_STARRED == <<"s", "t", "a", "r", "r", "e", "d">>

\* u8::to_string
RECURSIVE u8_to_string(_)
u8_to_string(n) ==
  IF n < 10 THEN <<Digits[n + 1]>>
  ELSE u8_to_string(n \div 10) \o <<Digits[(n % 10) + 1]>>

\* str::parse::<usize>() on a target of 64 bits: the index by its digits.
parse_usize(s) == parse_wide(s, U64MaxDigits)

\* The usize of a small number, by its digits.
RECURSIVE usize_from(_)
usize_from(n) ==
  IF n = 0 THEN <<>> ELSE Append(usize_from(n \div 10), n % 10)

\* b.cmp(a) is Less: x goes before the first element it is greater than.
RECURSIVE insert_reverse(_, _)
insert_reverse(s, x) ==
  IF s = <<>> THEN <<x>>
  ELSE IF ~DigitsAtLeast(Head(s), x) THEN <<x>> \o s
  ELSE <<Head(s)>> \o insert_reverse(Tail(s), x)

\* The indices as they come in the query.
sort_by_nothing(s) == s

\* to_remove.sort_by(|a, b| b.cmp(a)): descending, equal elements kept.
RECURSIVE sort_by_reverse(_)
sort_by_reverse(s) ==
  IF s = <<>> THEN <<>>
  ELSE insert_reverse(sort_by_reverse(SubSeq(s, 1, Len(s) - 1)), s[Len(s)])

\* filter_map of "songIdToAdd" / "songId": the identifiers that decode.
songs_of(query, key) ==
  LET vs == SelectSeq(QueryValues(query, key), LAMBDA v : SongID_try_from(v).ok)
  IN  [i \in 1..Len(vs) |-> SongID_try_from(vs[i]).id]

\* filter_map of "songIndexToRemove": the values that parse.
indices_of(query) ==
  LET vs == SelectSeq(QueryValues(query, "songIndexToRemove"),
                      LAMBDA v : parse_usize(v).some)
  IN  [i \in 1..Len(vs) |-> parse_usize(vs[i]).v]

\* get_playlist: one statement, the connection is its temporary.
get_playlist(query_params) ==
  <<Get,
    CommandList(<<GetPlaylists, GetPlaylist(query_params.playlist.name)>>),
    Drop,
    Return(Ok("GetPlaylist"))>>

\* get_playlists: two statements, each with a temporary connection.
get_playlists(query_params) ==
  IF query_params.u # (IF query_params.username.some THEN query_params.username.v ELSE query_params.u)
  THEN <<Return(Err(not_authorized(query_params.u \o
           <<" is not authorized to get details for other users.">>)))>>
  ELSE <<Get, Command(GetPlaylists), Drop,
         Get, CommandListOfAnswer, Drop,
         Return(Ok("GetPlaylists"))>>

\* create_playlist with the connection kept until the function returns.
create_playlist_without_drop(query_params, query) ==
  LET songs == songs_of(query, "songId")
  IN  IF songs = <<>>
      THEN <<Return(Err(missing_parameter("songId is missing")))>>
      ELSE <<Get,
             Command(SaveQueueAsPlaylist(query_params.playlist)),
             Command(RemoveFromPlaylist_range_full(query_params.playlist)),
             CommandList([i \in 1..Len(songs) |->
                            AddToPlaylist(query_params.playlist, songs[i].path)])>>
           \o SubSeq(get_playlist([u |-> query_params.u,
                                   playlist |-> [name |-> query_params.playlist]]), 1, 3)
           \o <<Drop, Return(Ok("GetPlaylist"))>>

\* create_playlist without the removal of what the queue held.
create_playlist_without_clear(query_params, query) ==
  LET songs == songs_of(query, "songId")
  IN  IF songs = <<>>
      THEN <<Return(Err(missing_parameter("songId is missing")))>>
      ELSE <<Get,
             Command(SaveQueueAsPlaylist(query_params.playlist)),
             CommandList([i \in 1..Len(songs) |->
                            AddToPlaylist(query_params.playlist, songs[i].path)]),
             Drop>>
           \o get_playlist([u |-> query_params.u,
                            playlist |-> [name |-> query_params.playlist]])

\* create_playlist
create_playlist(query_params, query) ==
  LET songs == songs_of(query, "songId")
  IN  IF songs = <<>>
      THEN <<Return(Err(missing_parameter("songId is missing")))>>
      ELSE <<Get,
             Command(SaveQueueAsPlaylist(query_params.playlist)),
             Command(RemoveFromPlaylist_range_full(query_params.playlist)),
             CommandList([i \in 1..Len(songs) |->
                            AddToPlaylist(query_params.playlist, songs[i].path)]),
             Drop>>
           \o get_playlist([u |-> query_params.u,
                            playlist |-> [name |-> query_params.playlist]])

\* update_playlist: conn lives to the end of the function.
update_playlist(query_params, query) ==
  LET to_add == songs_of(query, "songIdToAdd")
      to_remove == sort_by_reverse(indices_of(query))
  IN  <<Get>>
      \o (IF to_remove # <<>>
          THEN <<CommandList([i \in 1..Len(to_remove) |->
                   RemoveFromPlaylist_position(query_params.playlist.name, to_remove[i])])>>
          ELSE <<>>)
      \o (IF to_add # <<>>
          THEN <<CommandList([i \in 1..Len(to_add) |->
                   AddToPlaylist(query_params.playlist.name, to_add[i].path)])>>
          ELSE <<>>)
      \o (IF query_params.name.some
          THEN <<Command(RenamePlaylist(query_params.playlist.name, query_params.name.v))>>
          ELSE <<>>)
      \o <<Drop, Return(Ok("()"))>>

\* delete_playlist: one statement.
delete_playlist(query_params) ==
  <<Get, Command(DeletePlaylist(query_params.playlist.name)), Drop, Return(Ok("()"))>>

\* The rounds of the loop of get_cover_art, each a statement with a
\* temporary connection that lives until the answer was looked at: an
\* answer without artwork returns not_found from inside the statement.
RECURSIVE cover_rounds(_)
cover_rounds(n) ==
  IF n = 0 THEN <<>>
  ELSE cover_rounds(n - 1) \o <<Get, Command(AlbumArt(n)), Artwork, Drop>>

\* get_cover_art, as far as the pool is concerned: the lookup of the
\* playlist is a statement with a temporary connection, followed by the
\* test of its first song, then the rounds the backend's chunks make
\* necessary.
get_cover_art(query_params, rounds) ==
  (IF query_params.cover.variant = "Playlist"
   THEN <<Get, Command(GetPlaylist(query_params.cover.name)), Drop, FirstOfPlaylist>>
   ELSE <<>>)
  \o cover_rounds(rounds) \o <<Return(Ok("Response"))>>

\* scrobble: without a ListenBrainz client the handler returns before it
\* asks the pool; the lookup of the song is a statement with a temporary
\* connection, and the service is called with none held.
scrobble(query_params, listenbrainz) ==
  IF ~listenbrainz
  THEN <<Return(Err(generic_error(Some("ListenBrainz client is not configured"))))>>
  ELSE <<Get, Command(Find(query_params.song.path)), Drop, First,
         IF query_params.submission = Some(TRUE) THEN Listen ELSE PlayingNow,
         Return(Ok("()"))>>

\* set_rating: conn is held from the sticker command to the return; with
\* a ListenBrainz client the song is looked up and, for the ratings 0, 1
\* and 5, the feedback is sent.
set_rating(query_params, listenbrainz) ==
  <<Get,
    Command(IF query_params.rating > 0
            THEN StickerSet(query_params.song.path, STICKER_RATING,
                            u8_to_string(query_params.rating))
            ELSE StickerDelete(query_params.song.path, STICKER_RATING))>>
  \o (IF ~listenbrainz THEN <<>>
      ELSE <<Command(Find(query_params.song.path)), First>>
           \o (CASE query_params.rating = 0 -> <<Feedback("Remove")>>
                 [] query_params.rating = 1 -> <<Feedback("Hate")>>
                 [] query_params.rating = 5 -> <<Feedback("Love")>>
                 [] OTHER -> <<>>))
  \o <<Drop, Return(Ok("()"))>>

\* star: one statement; the time is formatted after the acquisition.
star(query_params) ==
  <<Get, Format,
    Command(StickerSet(query_params.song.path, STICKER_STARRED, "now")),
    Drop, Return(Ok("()"))>>

\* unstar: one statement.
unstar(query_params) ==
  <<Get, Command(StickerDelete(query_params.song.path, STICKER_STARRED)), Drop,
    Return(Ok("()"))>>

\* start_scan: one statement with a list of three commands.
start_scan == <<Get, CommandList(<<Update, Stats, Status>>), Drop, Return(Ok("ScanStatus"))>>

\* get_scan_status: one statement with a list of two commands.
get_scan_status == <<Get, CommandList(<<Stats, Status>>), Drop, Return(Ok("ScanStatus"))>>

\* get_music_folders asks the backend nothing.
get_music_folders == <<Return(Ok("GetMusicFolders"))>>

\* The handlers of browsing.rs send their commands on state.client and ask
\* the pool for nothing (State, api.rs:43-47, declares no such field in
\* this snapshot; the handlers are followed as they are written).
get_artists(query_params) ==
  IF query_params.music_folder_id \in {None, Some(ROOT_FOLDER)}
  THEN <<ClientCommand(List("AlbumSort")), Return(Ok("GetArtists"))>>
  ELSE <<Return(Err(generic_error(None)))>>

\* get_artist: the albums of the artist, then one Find for each album.
get_artist(query_params, albums) ==
  <<ClientCommand(Count("AlbumSort")),
    ClientCommandList([i \in 1..albums |-> FindAlbum(i)]),
    Return(Ok("GetArtist"))>>

get_artist_info2(query_params) ==
  <<ClientCommand(List("MusicBrainzArtistId")), Return(Ok("ArtistInfo2"))>>

\* get_album: the songs of the album, then their count.
get_album(query_params) ==
  <<ClientCommand(FindAlbum(query_params.album.name)),
    ClientCommand(Count("Album")),
    Return(Ok("GetAlbum"))>>

\* What the handler of the route does when called.
handler(c) ==
  CASE c.route = "getPlaylists"    -> get_playlists(c.params)
    [] c.route = "getPlaylist"     -> get_playlist(c.params)
    [] c.route = "createPlaylist"  -> create_playlist(c.params, c.query)
    [] c.route = "updatePlaylist"  -> update_playlist(c.params, c.query)
    [] c.route = "deletePlaylist"  -> delete_playlist(c.params)
    [] c.route = "getCoverArt"     -> get_cover_art(c.params, c.rounds)
    [] c.route = "scrobble"        -> scrobble(c.params, c.listenbrainz)
    [] c.route = "setRating"       -> set_rating(c.params, c.listenbrainz)
    [] c.route = "star"            -> star(c.params)
    [] c.route = "unstar"          -> unstar(c.params)
    [] c.route = "startScan"       -> start_scan
    [] c.route = "getScanStatus"   -> get_scan_status
    [] c.route = "getMusicFolders" -> get_music_folders
    [] c.route = "getArtists"      -> get_artists(c.params)
    [] c.route = "getArtist"       -> get_artist(c.params, c.albums)
    [] c.route = "getArtistInfo2"  -> get_artist_info2(c.params)
    [] c.route = "getAlbum"        -> get_album(c.params)

\* The sequence without its element at place i.
RemoveAt(s, i) == SubSeq(s, 1, i - 1) \o SubSeq(s, i + 1, Len(s))

\* The backend's execution of a command: the stored playlists after it, or
\* its refusal.  save refuses a name that exists, playlistdelete a playlist
\* or a position that does not exist, rename a source that does not exist
\* or a target that does; playlistadd creates the playlist when needed.
Execute(st, q, c) ==
  CASE c.cmd = "save" ->
         IF st[c.name].some THEN Err("ACK")
         ELSE Ok([st EXCEPT ![c.name] = Some(q)])
    [] c.cmd = "playlistdelete" /\ "position" \in DOMAIN c ->
         IF st[c.name].some
            /\ \E k \in 1..Len(st[c.name].v) : usize_from(k - 1) = c.position
         THEN Ok([st EXCEPT ![c.name] =
                    Some(RemoveAt(@.v, CHOOSE k \in 1..Len(@.v) :
                                         usize_from(k - 1) = c.position))])
         ELSE Err("ACK")
    [] c.cmd = "playlistdelete" /\ "from" \in DOMAIN c ->
         IF st[c.name].some
         THEN Ok([st EXCEPT ![c.name] = Some(SubSeq(@.v, 1, c.from))])
         ELSE Err("ACK")
    [] c.cmd = "playlistadd" ->
         Ok([st EXCEPT ![c.name] =
               Some((IF @.some THEN @.v ELSE <<>>) \o <<c.path>>)])
    [] c.cmd = "rename" ->
         IF st[c.name].some /\ ~st[c.to].some
         THEN Ok([st EXCEPT ![c.to] = st[c.name], ![c.name] = None])
         ELSE Err("ACK")
    [] c.cmd = "rm" ->
         IF st[c.name].some THEN Ok([st EXCEPT ![c.name] = None])
         ELSE Err("ACK")
    [] c.cmd = "listplaylistinfo" ->
         IF st[c.name].some THEN Ok(st) ELSE Err("ACK")
    [] OTHER -> Ok(st)

\* The backend executes the first n commands of the list, n chosen by the
\* transport, and stops before at the first command it refuses.
RECURSIVE ExecuteList(_, _, _, _)
ExecuteList(st, q, cmds, n) ==
  IF cmds = <<>> THEN [ok |-> TRUE, store |-> st]
  ELSE IF n = 0 THEN [ok |-> FALSE, store |-> st]
  ELSE LET r == Execute(st, q, Head(cmds))
       IN  IF r.ok THEN ExecuteList(r.v, q, Tail(cmds), n - 1)
           ELSE [ok |-> FALSE, store |-> st]

\* The names of the stored playlists, as GetPlaylists answers.
Listed(st) == SelectSeq(PlaylistNames, LAMBDA n : st[n].some)

\* What the handler keeps of the answer: the songs of the playlist when
\* the command was GetPlaylist alone, the names of the playlists otherwise.
Answer(cmds, st) ==
  IF Len(cmds) = 1 /\ cmds[1].cmd = "listplaylistinfo"
  THEN st[cmds[1].name].v
  ELSE Listed(st)

\* The commands of the step: given, or one GetPlaylist for each playlist of
\* the answer before.
CommandsOf(o, ans) ==
  IF o.op = "command_list" THEN o.cmds
  ELSE [i \in 1..Len(ans.v) |-> GetPlaylist(ans.v[i])]

T_1 == <<"1">>
T_x == <<"x">>

\* The repeated parameters of the queries of the model.
UpdateParts ==
  {<<"songIndexToRemove", v>> : v \in {T_0, T_1, T_x, T_u32_over}}
    \cup {<<"songIdToAdd", v>> : v \in {SongID_into_string([path |-> T_a_mp3]),
                                        SongID_into_string([path |-> T_b_mp3])}}

CreateParts ==
  {<<"songId", v>> : v \in {SongID_into_string([path |-> T_a_mp3]),
                            SongID_into_string([path |-> T_b_mp3]),
                            T_not_base64}}

RECURSIVE PartsOf(_, _)
PartsOf(parts, n) ==
  IF n = 0 THEN {<<>>}
  ELSE PartsOf(parts, n - 1)
       \cup {Append(s, x) : s \in PartsOf(parts, n - 1), x \in parts}

\* The calls of the model: the route, the extracted parameters, the raw
\* query and, for the cover, the rounds the backend's chunks take.
Calls ==
  {[route |-> "updatePlaylist",
    params |-> [playlist |-> PlaylistID_try_from(T_playlist_id).id, name |-> n],
    query |-> Param("playlistId", T_playlist_id) \o q] :
     n \in {None, Some(T_new)}, q \in PartsOf(UpdateParts, MaxParams)}
  \cup
  {[route |-> "createPlaylist",
    params |-> [u |-> T_bob, playlist |-> T_mix],
    query |-> Param("u", T_bob) \o Param("name", T_mix) \o q] :
     q \in PartsOf(CreateParts, MaxParams)}
  \cup
  {[route |-> "getPlaylists", params |-> [u |-> T_bob, username |-> n]] :
     n \in {None, Some(T_bob), Some(T_eve)}}
  \cup
  {[route |-> r,
    params |-> [u |-> T_bob, playlist |-> PlaylistID_try_from(T_playlist_id).id]] :
     r \in {"getPlaylist", "deletePlaylist"}}
  \cup
  {[route |-> "getCoverArt", params |-> [cover |-> id], rounds |-> n] :
     id \in CoverIDs, n \in 1..MaxChunks}
  \cup
  {[route |-> "setRating",
    params |-> [song |-> SongID_try_from(T_song_id).id, rating |-> n],
    listenbrainz |-> l] :
     n \in {0, 1, 3, 5}, l \in BOOLEAN}
  \cup
  {[route |-> "scrobble",
    params |-> [song |-> SongID_try_from(T_song_id).id, submission |-> s],
    listenbrainz |-> l] :
     s \in {None, Some(TRUE), Some(FALSE)}, l \in BOOLEAN}
  \cup
  {[route |-> r, params |-> [song |-> SongID_try_from(T_song_id).id]] :
     r \in {"star", "unstar"}}
  \cup
  {[route |-> r] : r \in {"startScan", "getScanStatus", "getMusicFolders"}}
  \cup
  {[route |-> "getArtists", params |-> [music_folder_id |-> m]] :
     m \in {None, Some(ROOT_FOLDER), Some(T_other_folder)}}
  \cup
  {[route |-> "getArtist", params |-> [artist |-> ArtistID_try_from(T_artist_id).id],
    albums |-> n] : n \in 0..MaxAlbums}
  \cup
  {[route |-> "getArtistInfo2",
    params |-> [artist |-> ArtistID_try_from(T_artist_id).id]]}
  \cup
  {[route |-> "getAlbum", params |-> [album |-> AlbumID_try_from(T_album_id).id]]}

\* The stored playlists and the queue the backend may have when a handler
\* is called.
Stores ==
  {[n \in {T_mix, T_new} |-> IF n = T_mix THEN m ELSE w] :
     m \in {None} \cup {Some(s) : s \in StoredPlaylists}, w \in {None, Some(<<>>)}}

Queues == {<<>>, <<T_b_mp3>>, <<T_b_mp3, T_a_mp3>>}

\* The handler is called with its parameters extracted.
HandlerStart ==
  /\ call = NoCall
  /\ call' \in Calls
  /\ todo' = handler(call')
  /\ store' \in Stores
  /\ queue' \in Queues
  /\ before' = store'
  /\ held' = 0
  /\ gets' = 0
  /\ sent' = <<>>
  /\ answer' = None
  /\ returned' = None
  /\ disturbed' = FALSE
  /\ UNCHANGED exhausted
  /\ UNCHANGED <<dvars, pvars, cvars, svars, kvars, evars>>

\* pool.get().await succeeds: the handler holds one connection more.
HandlerGet ==
  /\ todo # <<>>
  /\ Head(todo).op = "get"
  /\ ~exhausted
  /\ held' = held + 1
  /\ gets' = gets + 1
  /\ todo' = Tail(todo)
  /\ UNCHANGED <<call, exhausted, store, queue, before, sent, answer, returned,
                 disturbed>>
  /\ UNCHANGED <<dvars, pvars, cvars, svars, kvars, evars>>

\* pool.get().await? after connection_timeout without a connection: the
\* handler returns the error and drops what it holds.
HandlerGetTimesOut ==
  /\ todo # <<>>
  /\ Head(todo).op = "get"
  /\ exhausted
  /\ returned' = Some(Err(PoolTimedOut))
  /\ held' = 0
  /\ todo' = <<>>
  /\ UNCHANGED <<call, gets, exhausted, store, queue, before, sent, answer,
                 disturbed>>
  /\ UNCHANGED <<dvars, pvars, cvars, svars, kvars, evars>>

\* conn.command(..).await? and conn.command_list(..).await?
HandlerCommand ==
  /\ todo # <<>>
  /\ Head(todo).op \in {"command_list", "command_list_of_answer"}
  /\ held > 0
  /\ LET cmds == CommandsOf(Head(todo), answer)
     IN  \E n \in 0..Len(cmds) :
           LET r == ExecuteList(store, queue, cmds, n)
           IN  /\ store' = r.store
               /\ sent' = sent \o [i \in 1..Len(cmds) |->
                                     [command |-> cmds[i], on |-> "pool",
                                      acquisition |-> gets]]
               /\ IF r.ok
                  THEN /\ answer' = Some(Answer(cmds, r.store))
                       /\ todo' = Tail(todo)
                       /\ UNCHANGED <<held, returned>>
                  ELSE /\ returned' = Some(Err(CommandFailed))
                       /\ held' = 0
                       /\ todo' = <<>>
                       /\ UNCHANGED answer
  /\ UNCHANGED <<call, gets, exhausted, queue, before, disturbed>>
  /\ UNCHANGED <<dvars, pvars, cvars, svars, kvars, evars>>

\* state.client.command(..).await? and state.client.command_list(..).await?:
\* the commands go out on the client of the state, whatever the pool has.
HandlerClientCommand ==
  /\ todo # <<>>
  /\ Head(todo).op = "client_command_list"
  /\ LET cmds == Head(todo).cmds
     IN  \E n \in 0..Len(cmds) :
           LET r == ExecuteList(store, queue, cmds, n)
           IN  /\ store' = r.store
               /\ sent' = sent \o [i \in 1..Len(cmds) |->
                                     [command |-> cmds[i], on |-> "client",
                                      acquisition |-> 0]]
               /\ IF r.ok
                  THEN /\ answer' = Some(Answer(cmds, r.store))
                       /\ todo' = Tail(todo)
                       /\ UNCHANGED returned
                  ELSE /\ returned' = Some(Err(CommandFailed))
                       /\ todo' = <<>>
                       /\ UNCHANGED answer
  /\ UNCHANGED <<call, held, gets, exhausted, queue, before, disturbed>>
  /\ UNCHANGED <<dvars, pvars, cvars, svars, kvars, evars>>

\* The connection is dropped: the temporary at the end of its statement,
\* conn by drop(conn) or at the end of the function.
HandlerDrop ==
  /\ todo # <<>>
  /\ Head(todo).op = "drop"
  /\ held' = held - 1
  /\ todo' = Tail(todo)
  /\ UNCHANGED <<call, gets, exhausted, store, queue, before, sent, answer,
                 returned, disturbed>>
  /\ UNCHANGED <<dvars, pvars, cvars, svars, kvars, evars>>

\* songs.first(): of the songs of the playlist as answered; of the songs
\* Find answered, one when the song is in the library.  Without a first
\* song the handler returns not_found and drops what it holds.
HandlerFirst ==
  /\ todo # <<>>
  /\ Head(todo).op = "first"
  /\ \E found \in (IF Head(todo).of = "playlist" THEN {answer.v # <<>>} ELSE BOOLEAN) :
       IF found
       THEN /\ todo' = Tail(todo)
            /\ UNCHANGED <<held, returned>>
       ELSE /\ returned' = Some(Err(not_found))
            /\ held' = 0
            /\ todo' = <<>>
  /\ UNCHANGED <<call, gets, exhausted, store, queue, before, sent, answer,
                 disturbed>>
  /\ UNCHANGED <<dvars, pvars, cvars, svars, kvars, evars>>

\* The answer to AlbumArt: a chunk of the artwork, or none and the handler
\* returns not_found, which drops the temporary connection.
HandlerArtwork ==
  /\ todo # <<>>
  /\ Head(todo).op = "artwork"
  /\ \/ /\ todo' = Tail(todo)
        /\ UNCHANGED <<held, returned>>
     \/ /\ returned' = Some(Err(not_found))
        /\ held' = 0
        /\ todo' = <<>>
  /\ UNCHANGED <<call, gets, exhausted, store, queue, before, sent, answer,
                 disturbed>>
  /\ UNCHANGED <<dvars, pvars, cvars, svars, kvars, evars>>

\* The time is formatted, or the handler returns generic_error(None) and
\* drops the temporary connection.
HandlerFormat ==
  /\ todo # <<>>
  /\ Head(todo).op = "format"
  /\ \/ /\ todo' = Tail(todo)
        /\ UNCHANGED <<held, returned>>
     \/ /\ returned' = Some(Err(generic_error(None)))
        /\ held' = 0
        /\ todo' = <<>>
  /\ UNCHANGED <<call, gets, exhausted, store, queue, before, sent, answer,
                 disturbed>>
  /\ UNCHANGED <<dvars, pvars, cvars, svars, kvars, evars>>

\* listenbrainz.feedback(..).await?: the service takes the feedback, or
\* the request fails and the handler returns the error and drops conn.
HandlerFeedback ==
  /\ todo # <<>>
  /\ Head(todo).op = "feedback"
  /\ \/ /\ todo' = Tail(todo)
        /\ UNCHANGED <<held, returned>>
     \/ /\ returned' = Some(Err(From_listenbrainz_Error(
                                   RequestFailure(T_recording_feedback))))
        /\ held' = 0
        /\ todo' = <<>>
  /\ UNCHANGED <<call, gets, exhausted, store, queue, before, sent, answer,
                 disturbed>>
  /\ UNCHANGED <<dvars, pvars, cvars, svars, kvars, evars>>

\* listenbrainz.listen(..).await? and listenbrainz.playing_now(..).await?:
\* the service takes the listen, or the song has no artist or title, or
\* the request fails, and the handler returns the error.
HandlerListen ==
  /\ todo # <<>>
  /\ Head(todo).op \in {"listen", "playing_now"}
  /\ \/ /\ todo' = Tail(todo)
        /\ UNCHANGED <<held, returned>>
     \/ /\ \E err \in {SongWithoutMetadata, RequestFailure(T_submit_listens)} :
             returned' = Some(Err(From_listenbrainz_Error(err)))
        /\ held' = 0
        /\ todo' = <<>>
  /\ UNCHANGED <<call, gets, exhausted, store, queue, before, sent, answer,
                 disturbed>>
  /\ UNCHANGED <<dvars, pvars, cvars, svars, kvars, evars>>

\* The handler returns.
HandlerReturn ==
  /\ todo # <<>>
  /\ Head(todo).op = "return"
  /\ returned' = Some(Head(todo).result)
  /\ held' = 0
  /\ todo' = <<>>
  /\ UNCHANGED <<call, gets, exhausted, store, queue, before, sent, answer,
                 disturbed>>
  /\ UNCHANGED <<dvars, pvars, cvars, svars, kvars, evars>>

\* The response is sent.
HandlerFinish ==
  /\ call # NoCall
  /\ returned.some
  /\ call' = NoCall
  /\ todo' = <<>>
  /\ held' = 0
  /\ gets' = 0
  /\ store' = NoPlaylists
  /\ queue' = <<>>
  /\ before' = NoPlaylists
  /\ sent' = <<>>
  /\ answer' = None
  /\ returned' = None
  /\ disturbed' = FALSE
  /\ UNCHANGED exhausted
  /\ UNCHANGED <<dvars, pvars, cvars, svars, kvars, evars>>

\* Other requests take every connection the handler does not hold.
PoolExhausted ==
  /\ ~exhausted
  /\ exhausted' = TRUE
  /\ UNCHANGED <<call, todo, held, gets, store, queue, before, sent, answer,
                 returned, disturbed>>
  /\ UNCHANGED <<dvars, pvars, cvars, svars, kvars, evars>>

\* One of them releases a connection.
PoolRelieved ==
  /\ exhausted
  /\ exhausted' = FALSE
  /\ UNCHANGED <<call, todo, held, gets, store, queue, before, sent, answer,
                 returned, disturbed>>
  /\ UNCHANGED <<dvars, pvars, cvars, svars, kvars, evars>>

\* Another client of the backend adds a song to the playlist while the
\* handler runs.
OtherWrites ==
  /\ todo # <<>>
  /\ ~disturbed
  /\ store' = Execute(store, queue, AddToPlaylist(T_mix, T_b_mp3)).v
  /\ disturbed' = TRUE
  /\ UNCHANGED <<call, todo, held, gets, exhausted, queue, before, sent, answer,
                 returned>>
  /\ UNCHANGED <<dvars, pvars, cvars, svars, kvars, evars>>

NextHandler ==
  \/ HandlerStart
  \/ HandlerGet
  \/ HandlerGetTimesOut
  \/ HandlerCommand
  \/ HandlerClientCommand
  \/ HandlerDrop
  \/ HandlerFirst
  \/ HandlerArtwork
  \/ HandlerFormat
  \/ HandlerFeedback
  \/ HandlerListen
  \/ HandlerReturn
  \/ HandlerFinish
  \/ PoolExhausted
  \/ PoolRelieved
  \/ OtherWrites

InitHandler ==
  /\ auth = Authentication_new(T_bob, T_secret)
  /\ DispatchInit
  /\ PoolInit
  /\ MediaInit

SpecHandler == InitHandler /\ [][NextHandler]_vars

(***************************************************************************)
(* The vocabulary of the properties: what a request carries, read off the  *)
(* query as sent, and what a response shows, read off the response.        *)
(***************************************************************************)

Carried(q, k) == {i \in 1..Len(q) : q[i][1] = k}
Carries(q, k) == Carried(q, k) # {}
Value(q, k) == q[CHOOSE i \in Carried(q, k) : TRUE][2]
AtMostOnce(q, keys) == \A k \in keys : Cardinality(Carried(q, k)) <= 1

CredentialKeys == {"u", "p", "t", "s"}

HasMarker(p) == Len(p) >= 4 /\ SubSeq(p, 1, 4) = <<"e", "n", "c", ":">>

\* Known answers: the marker followed by the hex rendering of the password,
\* and the lowercase hex MD5 of the password followed by the salt.
KnownEncoded(password) ==
  CASE password = T_secret -> T_enc_secret
    [] password = T_enc1   -> T_enc_enc1

KnownToken(password, salt) ==
  CASE password = T_secret /\ salt = T_xyz -> T_token_secret
    [] password = T_enc1 /\ salt = T_xyz   -> T_token_enc1
    [] password = T_secret /\ salt = T_ab -> T_token_secret_ab
    [] password = T_enc1 /\ salt = T_ab   -> T_token_enc1_ab

\* The rule of admission: the username, and the first applicable scheme.
CredentialsMatch(q, a) ==
  /\ Carries(q, "u")
  /\ Value(q, "u") = a.username
  /\ IF Carries(q, "p")
     THEN IF HasMarker(Value(q, "p"))
          THEN Value(q, "p") = KnownEncoded(a.password)
          ELSE Value(q, "p") = a.password
     ELSE /\ Carries(q, "t")
          /\ Carries(q, "s")
          /\ Value(q, "t") = KnownToken(a.password, Value(q, "s"))

\* The format that f and callback select.
SelectedFormat(q) ==
  IF ~AtMostOnce(q, {"f", "callback"}) THEN "xml"
  ELSE IF Carries(q, "f") /\ Value(q, "f") = <<"j", "s", "o", "n">> THEN "json"
  ELSE IF /\ Carries(q, "f")
          /\ Value(q, "f") = <<"j", "s", "o", "n", "p">>
          /\ Carries(q, "callback")
  THEN "jsonp"
  ELSE "xml"

ContentTypeOf(format) ==
  CASE format = "json"  -> "application/json"
    [] format = "jsonp" -> "text/javascript"
    [] format = "xml"   -> "text/xml"

IsEnvelope(r) == r.kind = "envelope"

\* The status, the version and the payload an envelope shows, in either
\* rendering; the payload as a sequence of at most one <<field, record>>.
EnvelopeStatus(r) ==
  IF r.format = "xml" THEN r.body.status ELSE r.body.entries[1][2]

EnvelopeVersion(r) ==
  IF r.format = "xml" THEN r.body.version ELSE r.body.entries[2][2]

EnvelopePayload(r) ==
  IF r.format = "xml"
  THEN [i \in 1..Len(r.body.children) |->
          <<field_name(r.body.children[i].type).v, r.body.children[i]>>]
  ELSE SubSeq(r.body.entries, 3, Len(r.body.entries))

IsErrorRecord(x) ==
  /\ x.type = "Error"
  /\ DOMAIN x = {"type", "code", "message"}
  /\ x.code \in Nat

IsErrorEnvelope(r) ==
  /\ IsEnvelope(r)
  /\ EnvelopeStatus(r) = "failed"
  /\ Len(EnvelopePayload(r)) = 1
  /\ EnvelopePayload(r)[1][1] = "error"
  /\ IsErrorRecord(EnvelopePayload(r)[1][2])

ErrorCode(r) == EnvelopePayload(r)[1][2].code

\* The guard answered the request: the response is there and the wrapped
\* handler was not invoked.
GuardRejected == pc = "done" /\ handler_calls = 0

(***************************************************************************)
(* C1 as stated: the guard admits a request exactly when the supplied      *)
(* username is the configured one and the first applicable scheme matches: *)
(* p with the marker against the marker and the hex password, p without    *)
(* the marker against the plaintext password, and with p absent, t against *)
(* the hex MD5 of the password and the salt s; t and s play no part when p *)
(* is present.                                                             *)
(***************************************************************************)
C1_AdmitsIffCredentialsMatch ==
  pc \in {"extract", "body", "await", "done"}
    => (handler_calls = 1 <=> CredentialsMatch(req.query, auth))

(***************************************************************************)
(* C1 amended: the guard admits a request exactly when none of u, p, t and *)
(* s is given more than once, the supplied username is the configured one  *)
(* and the first applicable scheme matches, as stated.  A request that     *)
(* repeats one of the four is rejected whatever they are: a right p given  *)
(* twice, and a right p beside a repeated t or s.                          *)
(***************************************************************************)
C1_AdmitsIffGivenOnceAndMatch ==
  pc \in {"extract", "body", "await", "done"}
    => (handler_calls = 1 <=>
          (AtMostOnce(req.query, CredentialKeys)
           /\ CredentialsMatch(req.query, auth)))

\* Admitted by the token scheme, p absent.
C1_Witness ==
  /\ pc = "body"
  /\ handler_calls = 1
  /\ ~Carries(req.query, "p")
  /\ Carries(req.query, "t")
  /\ Carries(req.query, "s")

(***************************************************************************)
(* C2.  As stated: whenever the guard rejects a request, the code is 40 if *)
(* the request carries p or both t and s, and 10 otherwise.                *)
(***************************************************************************)
C2_CodeByCredentialsCarried ==
  GuardRejected =>
    /\ IsErrorEnvelope(resp)
    /\ ErrorCode(resp) =
         IF \/ Carries(req.query, "p")
            \/ Carries(req.query, "t") /\ Carries(req.query, "s")
         THEN 40 ELSE 10

\* The credentials parse: u once, and p, t and s at most once each.
CredentialsParse(q) ==
  Cardinality(Carried(q, "u")) = 1 /\ AtMostOnce(q, CredentialKeys)

(***************************************************************************)
(* C2, amended.  Whenever the guard rejects a request that carries u once  *)
(* and none of p, t, s twice, the code is 40 if the request carries p or   *)
(* both t and s, and 10 otherwise; a rejected request without u, or with a *)
(* credential repeated, gets the code 10 whatever else it carries.         *)
(***************************************************************************)
C2_CodeByCredentialsParsed ==
  GuardRejected =>
    /\ IsErrorEnvelope(resp)
    /\ ErrorCode(resp) =
         IF /\ CredentialsParse(req.query)
            /\ \/ Carries(req.query, "p")
               \/ Carries(req.query, "t") /\ Carries(req.query, "s")
         THEN 40 ELSE 10

\* Rejected with the code 40: u present, p with the marker and not the
\* encoded password.
C2_Witness ==
  /\ GuardRejected
  /\ CredentialsParse(req.query)
  /\ Carries(req.query, "p")
  /\ HasMarker(Value(req.query, "p"))
  /\ ErrorCode(resp) = 40

(***************************************************************************)
(* C3.  A request the guard rejects (its credentials do not match, or a    *)
(* credential is repeated) never reaches the wrapped handler, whatever the *)
(* route: no extractor and no body runs, the pool is not asked and the     *)
(* backend gets no command, and the response is the error envelope in the  *)
(* format that f and callback select.                                      *)
(***************************************************************************)
C3_GuardShortCircuits ==
  (/\ pc \in {"extract", "body", "await", "done"}
   /\ ~(AtMostOnce(req.query, CredentialKeys) /\ CredentialsMatch(req.query, auth)))
    => /\ pc = "done"
       /\ handler_calls = 0
       /\ extractions = 0
       /\ bodies = 0
       /\ pool_gets = 0
       /\ commands = 0
       /\ IsErrorEnvelope(resp)
       /\ resp.format = SelectedFormat(req.query)

\* Rejected on a route that would ask the pool, with JSONP selected.
C3_Witness ==
  /\ GuardRejected
  /\ req.route = "setRating"
  /\ Carries(req.query, "id")
  /\ resp.format = "jsonp"
  /\ ErrorCode(resp) = 40

(***************************************************************************)
(* C4.  The format of every envelope is the function of f and callback:    *)
(* JSON with application/json for f=json whatever the callback, the JSON   *)
(* wrapped in the callback with a javascript content type for f=jsonp with *)
(* a callback, XML in every other case, an unparsable query among them;    *)
(* the same whether the guard, an extractor or the body made the reply,    *)
(* and whether the body succeeded or failed.                               *)
(***************************************************************************)
C4_FormatIsFunctionOfQuery ==
  IsEnvelope(resp) =>
    /\ resp.format = SelectedFormat(req.query)
    /\ resp.content_type = ContentTypeOf(SelectedFormat(req.query))
    /\ resp.format = "jsonp" => resp.callback = Value(req.query, "callback")
    /\ resp.format \in {"json", "jsonp"} => resp.body.root = "subsonic-response"
    /\ resp.format = "xml" => "xmlns" \in DOMAIN resp.body

\* The body failed on a request with f=json and a callback: JSON.
C4_Witness ==
  /\ pc = "done"
  /\ bodies = 1
  /\ IsErrorEnvelope(resp)
  /\ Carries(req.query, "callback")
  /\ resp.format = "json"

\* The field name the reply type of a route declares, if any.
DeclaredField(route) ==
  CASE route \in {"ping", "scrobble", "setRating", "star", "unstar",
                  "updatePlaylist", "deletePlaylist"} -> <<>>
    [] route = "getLicense"                       -> <<"license">>
    [] route = "getUser"                          -> <<"user">>
    [] route = "getMusicFolders"                  -> <<"musicFolders">>
    [] route = "getArtists"                       -> <<"artists">>
    [] route = "getArtist"                        -> <<"artist">>
    [] route = "getArtistInfo2"                   -> <<"artistInfo2">>
    [] route = "getAlbum"                         -> <<"album">>
    [] route = "getPlaylists"                     -> <<"playlists">>
    [] route \in {"getPlaylist", "createPlaylist"} -> <<"playlist">>
    [] route \in {"startScan", "getScanStatus"}    -> <<"scanStatus">>
    [] OTHER                                      -> <<>>

(***************************************************************************)
(* C5.  In every envelope, XML or JSON: the status is failed exactly when  *)
(* the payload is the error record under the field error; with the status  *)
(* ok the payload is there exactly when the reply type of the route        *)
(* declares a field, under that field; and the version is 1.16.1.          *)
(***************************************************************************)
C5_EnvelopeShape ==
  IsEnvelope(resp) =>
    LET payload == EnvelopePayload(resp)
    IN  /\ EnvelopeStatus(resp) \in {"ok", "failed"}
        /\ EnvelopeVersion(resp) = "1.16.1"
        /\ Len(payload) <= 1
        /\ EnvelopeStatus(resp) = "failed" <=>
             (Len(payload) = 1 /\ payload[1][1] = "error"
              /\ IsErrorRecord(payload[1][2]))
        /\ EnvelopeStatus(resp) = "ok" =>
             /\ bodies = 1
             /\ [i \in 1..Len(payload) |-> payload[i][1]] = DeclaredField(req.route)

\* A void reply in JSON: the status ok and no payload.
C5_Witness ==
  /\ IsEnvelope(resp)
  /\ resp.format = "json"
  /\ req.route = "setRating"
  /\ EnvelopeStatus(resp) = "ok"
  /\ EnvelopePayload(resp) = <<>>

\* The extractors of the request's route that reject the request.
Rejecting ==
  {i \in 1..Len(Routes[req.route].extractors) :
     ~from_request_parts(Routes[req.route].extractors[i], req.query).ok}

\* Requests whose parameters are known not to extract: a required field is
\* missing, a number is out of range or no number, an ID does not decode.
KnownUnextractable ==
  \/ /\ req.route \in {"getUser", "getAvatar"}
     /\ ~Carries(req.query, "username")
  \/ /\ req.route = "setRating"
     /\ \/ ~Carries(req.query, "id")
        \/ ~Carries(req.query, "rating")
        \/ Value(req.query, "rating") \in {T_256, T_five}
        \/ Value(req.query, "id") \in {T_not_base64, T_not_json}
  \/ /\ req.route = "createPlaylist"
     /\ ~Carries(req.query, "name")
  \/ /\ req.route = "getCoverArt"
     /\ \/ ~Carries(req.query, "id")
        \/ Value(req.query, "id") \in {T_not_base64, T_not_json}
  \/ /\ req.route \in {"scrobble", "star", "unstar", "stream", "getArtist",
                       "getArtistInfo2", "getPlaylist", "deletePlaylist"}
     /\ \/ ~Carries(req.query, "id")
        \/ Value(req.query, "id") \in {T_not_base64, T_not_json}
  \/ /\ req.route = "scrobble"
     /\ \/ QueryValues(req.query, "time") = <<T_i64_over>>
        \/ QueryValues(req.query, "submission") = <<T_maybe>>
  \/ /\ req.route = "stream"
     /\ QueryValues(req.query, "maxBitRate") = <<T_u32_over>>
  \/ /\ req.route = "getAlbum"
     /\ \/ ~Carries(req.query, "id")
        \/ Value(req.query, "id") = T_artist_id
  \/ /\ req.route = "updatePlaylist"
     /\ \/ ~Carries(req.query, "playlistId")
        \/ Value(req.query, "playlistId") = T_not_base64

(***************************************************************************)
(* C6.  On every route, enveloped or raw, the extractors run in the order  *)
(* of the signature and before the body; when one rejects the request the  *)
(* reply is the error envelope with the code 10, no later extractor and no *)
(* body runs, and the backend gets no command.                             *)
(***************************************************************************)
C6_ExtractionShortCircuits ==
  handler_calls = 1 =>
    /\ pc = "extract" =>
         /\ extractions = argi - 1
         /\ \A i \in 1..extractions : i \notin Rejecting
         /\ bodies = 0 /\ pool_gets = 0 /\ commands = 0
    /\ pc = "body" => bodies = 0 /\ pool_gets = 0 /\ commands = 0
    /\ pc \in {"body", "await", "done"} =>
         IF Rejecting = {}
         THEN /\ ~KnownUnextractable
              /\ extractions = Len(Routes[req.route].extractors)
              /\ pc \in {"await", "done"} => bodies = 1
         ELSE /\ pc = "done"
              /\ \A i \in Rejecting : extractions <= i
              /\ extractions \in Rejecting
              /\ bodies = 0
              /\ pool_gets = 0
              /\ commands = 0
              /\ IsErrorEnvelope(resp)
              /\ ErrorCode(resp) = 10

\* An undecodable ID on a raw route: the second extractor rejected.
C6_Witness ==
  /\ pc = "done"
  /\ handler_calls = 1
  /\ req.route = "getCoverArt"
  /\ Carries(req.query, "id")
  /\ Value(req.query, "id") = T_not_base64
  /\ extractions = 2
  /\ ErrorCode(resp) = 10

\* How many connections callers hold.
HeldCount(bag) ==
  BagCardinality([c \in {x \in BagToSet(bag) : x.holders > 0} |-> bag[c]])

(***************************************************************************)
(* C7.  The pool never hands a connection to two callers at once: under    *)
(* every interleaving of get and release, a connection is either idle and  *)
(* held by nobody, or checked out and held by exactly one caller.          *)
(***************************************************************************)
C7_ExclusiveCheckout ==
  \A c \in BagToSet(conns) :
    \/ c.idle /\ c.holders = 0
    \/ ~c.idle /\ c.holders = 1

\* Two connections are checked out, one of them for the second time, while
\* another caller is looking for one.
C7_Witness ==
  /\ HeldCount(conns) >= 2
  /\ \E c \in BagToSet(conns) : c.holders = 1 /\ c.handouts = 2
  /\ acquiring > 0

(***************************************************************************)
(* C8.  The live connections, with those being established, never exceed   *)
(* 8; a caller waits only while no connection is idle, and never past the  *)
(* timeout of 1 s; it stops waiting only when a connection is handed out   *)
(* or, the timeout elapsed, by the pool's timeout error, which reaches the *)
(* client as an error envelope with the code 0.                            *)
(***************************************************************************)
C8_BoundedPoolAndWait ==
  /\ [](/\ BagCardinality(conns) + pending <= 8
        /\ waiters # <<>> => IdleConns = {}
        /\ \A i \in 1..Len(waiters) : waiters[i] <= 1
        /\ last.event = "timeout" =>
             /\ IsErrorEnvelope(last.reply)
             /\ ErrorCode(last.reply) = 0)
  /\ [][Len(waiters') < Len(waiters) =>
          \/ /\ HeldCount(conns') >= 1
             /\ HeldCount(conns') >= HeldCount(conns)
             /\ last'.event # "timeout"
          \/ /\ Head(waiters) = 1
             /\ conns' = conns
             /\ last'.event = "timeout"]_vars

\* All 8 connections are checked out and a waiting caller has timed out.
C8_Witness ==
  /\ BagCardinality(conns) = 8
  /\ HeldCount(conns) = 8
  /\ last.event = "timeout"
  /\ ErrorCode(last.reply) = 0

(***************************************************************************)
(* C9.  No caller gets a connection whose probe failed or whose transport  *)
(* was closed: every connection a caller holds was open when handed out;   *)
(* the failing one is discarded, which leaves room for its replacement,    *)
(* and the replacement is on its way whenever a caller waits for it.       *)
(***************************************************************************)
C9_BrokenNeverHandedOut ==
  /\ \A c \in BagToSet(conns) : c.holders > 0 => c.open_at_handout
  /\ last.event = "discarded" =>
       /\ BagCardinality(conns) + pending <= 8
       /\ BagCardinality(conns) < 8
       /\ waiters # <<>> => pending > 0

\* An idle connection with a closed transport failed the probe and was
\* discarded; the caller goes on looking.
C9_Witness ==
  /\ last.event = "discarded"
  /\ last.by = "is_valid"
  /\ acquiring > 0
  /\ \A c \in BagToSet(conns) : c.transport = "open"

(***************************************************************************)
(* C10.  Every connection of the pool, idle or handed to a caller, has     *)
(* completed the customization, which set the binary limit to 128 KiB, and *)
(* completed it once, however often the connection was handed out.         *)
(***************************************************************************)
C10_CustomizedOnce ==
  \A c \in BagToSet(conns) :
    /\ c.binary_limit = 131072
    /\ c.customized = 1

\* A connection is handed out for the second time, customized once.
C10_Witness ==
  \E c \in BagToSet(conns) :
    /\ c.holders = 1
    /\ c.handouts = 2
    /\ c.customized = 1
    /\ c.binary_limit = 131072


\* The bytes of the answers logged, in order.
RECURSIVE ChunkData(_)
ChunkData(log) ==
  IF log = <<>> THEN <<>>
  ELSE (IF Head(log).answer.some THEN Head(log).answer.v.data ELSE <<>>)
       \o ChunkData(Tail(log))

\* Every answer logged was made from the same artwork.
SameArtwork(log) == \A i \in 1..Len(log) : log[i].of.some /\ log[i].of.bytes = log[1].of.bytes

CoverDelivered == cover_pc = "done" /\ cover_resp.kind = "raw"

(***************************************************************************)
(* C11: cover art assembly is independent of chunking.  Every AlbumArt     *)
(* command carries as offset the number of bytes accumulated before it,    *)
(* and whatever non-empty chunk lengths the backend chooses for an         *)
(* artwork, the body delivered is the artwork's bytes from the first to    *)
(* the last, which is what a single chunk of the full size gives.          *)
(***************************************************************************)
C11_AssemblyIndependentOfChunking ==
  /\ \A k \in 1..Len(chunk_log) :
       chunk_log[k].offset = Len(ChunkData(SubSeq(chunk_log, 1, k - 1)))
  /\ (CoverDelivered /\ SameArtwork(chunk_log)) =>
       /\ cover_resp.body = chunk_log[1].of.bytes
       /\ \E one \in AlbumArtAnswers(chunk_log[1].of, 0) :
            one.v.v.data = cover_resp.body

\* A cover delivered from chunks of different lengths of one artwork.
C11_Witness ==
  /\ CoverDelivered
  /\ SameArtwork(chunk_log)
  /\ Len(chunk_log) >= 2
  /\ Len(chunk_log[1].answer.v.data) # Len(chunk_log[2].answer.v.data)
  /\ \A k \in 1..Len(chunk_log) : chunk_log[k].answer.v.data # <<>>

(***************************************************************************)
(* C12 as stated: the loop stops when the accumulated length reaches the   *)
(* total size of the first answer; while it goes on the accumulated length *)
(* is below that size, and the body delivered has reached it.              *)
(***************************************************************************)
C12_ThresholdIsFirstSize ==
  (chunk_log # <<>> /\ chunk_log[1].answer.some) =>
    /\ cover_pc = "loop" => Len(cover) < chunk_log[1].answer.v.size
    /\ CoverDelivered => Len(cover) >= chunk_log[1].answer.v.size

(***************************************************************************)
(* C12 amended: the loop stops when the accumulated length reaches the     *)
(* total size reported by the answer just received; while it goes on the   *)
(* accumulated length is below the size of the latest answer, the body     *)
(* delivered has reached it, and no command follows the delivery.          *)
(***************************************************************************)
C12_ThresholdIsLatestSize ==
  (chunk_log # <<>> /\ chunk_log[Len(chunk_log)].answer.some) =>
    /\ cover_pc = "loop" => Len(cover) < chunk_log[Len(chunk_log)].answer.v.size
    /\ CoverDelivered =>
         /\ Len(cover) >= chunk_log[Len(chunk_log)].answer.v.size
         /\ cover_resp.body = cover

\* A cover delivered after answers that report different total sizes.
C12_Witness ==
  /\ CoverDelivered
  /\ Len(chunk_log) >= 2
  /\ chunk_log[1].answer.v.size # chunk_log[Len(chunk_log)].answer.v.size

\* The ladder of the bitrates, as a set.
Ladder == {96, 112, 128, 160, 192}

Transcoded == stream_resp.kind = "stream" /\ stream_resp.of = "stdout"

(***************************************************************************)
(* C13 as stated: a stream request whose format is neither absent, raw nor *)
(* ogg is rejected with the generic error 'unsupported format', code 0,    *)
(* and no source stream was opened from the library and no subprocess      *)
(* spawned for it.                                                         *)
(***************************************************************************)
C13_UnsupportedRejectedBeforeOpen ==
  (stream_pc # "idle" /\ format_arm(params.format) = "other") =>
    /\ lib_opens = 0
    /\ spawns = 0
    /\ stream_pc = "done" =>
         /\ IsErrorEnvelope(stream_resp)
         /\ ErrorCode(stream_resp) = 0
         /\ EnvelopePayload(stream_resp)[1][2] =
              generic_error(Some("unsupported format"))

(***************************************************************************)
(* C14 as stated: for the format ogg or none, the target bitrate is the    *)
(* greatest entry of the ladder that is at most the requested maximum, and *)
(* 192 when no maximum is requested, or 0, or one above 192.               *)
(***************************************************************************)
C14_GreatestEntryNotAbove ==
  ffmpeg.some =>
    LET m == params.max_bitrate
    IN  IF ~m.some \/ m.v = 0 \/ m.v > 192
        THEN ffmpeg.v = 192 * 1024
        ELSE \E e \in Ladder :
               /\ ffmpeg.v = e * 1024
               /\ e <= m.v
               /\ \A o \in Ladder : o <= m.v => o <= e

(***************************************************************************)
(* C14 amended: as stated for a requested maximum of 96 or more; for a     *)
(* requested maximum from 1 to 95, below every entry of the ladder, the    *)
(* target is the lowest entry, 96.  The encoder is given the target times  *)
(* 1024.                                                                   *)
(***************************************************************************)
C14_GreatestEntryOrLowest ==
  ffmpeg.some =>
    LET m == params.max_bitrate
    IN  IF ~m.some \/ m.v = 0 \/ m.v > 192
        THEN ffmpeg.v = 192 * 1024
        ELSE IF m.v < 96
        THEN ffmpeg.v = 96 * 1024
        ELSE \E e \in Ladder :
               /\ ffmpeg.v = e * 1024
               /\ e <= m.v
               /\ \A o \in Ladder : o <= m.v => o <= e

\* The encoder spawned for a requested maximum of 150: 128 times 1024.
C14_Witness ==
  /\ ffmpeg = Some(131072)
  /\ params.max_bitrate = Some(150)
  /\ format_arm(params.format) = "ogg"

\* The copy has returned: the task waits for the child or has ended.
CopyEnded == feeder \in {"wait", "done"}

(***************************************************************************)
(* C15 as stated: in a transcoding session the task that feeds the child's *)
(* stdin and the body that reads its stdout run side by side; the child is *)
(* waited for only after the copy has ended and the stdin is closed; and   *)
(* whatever fails, the copy or the wait, the output stream ends and the    *)
(* child is reaped in the end.                                             *)
(***************************************************************************)
C15_OutputEndsAndChildReaped ==
  /\ [](CopyEnded => stdin_w = "closed")
  /\ (Transcoded /\ body = "open") ~> (body # "open")
  /\ (child = "running") ~> (child = "reaped")

(***************************************************************************)
(* C15 amended: the child is waited for only after the copy has ended and  *)
(* the stdin is closed.  Provided the encoder reads its input, writes its  *)
(* output and exits at the end of its input, and the client reads the body *)
(* as long as it is connected: once the copy has ended, by the end of the  *)
(* source or by an error, the output stream ends and the child is reaped,  *)
(* whether the copy or the wait failed; and when moreover the source       *)
(* answers every read, the output of every transcoding session ends and    *)
(* its child is reaped.                                                    *)
(***************************************************************************)
C15_OutputEndsWhenEncoderRunsAndClientReads ==
  /\ [](CopyEnded => stdin_w = "closed")
  /\ (EncoderRuns /\ ClientReads) =>
       /\ (Transcoded /\ CopyEnded /\ body = "open") ~> (body # "open")
       /\ (CopyEnded /\ child = "running") ~> (child = "reaped")
  /\ (SourceAnswers /\ EncoderRuns /\ ClientReads) =>
       /\ (Transcoded /\ body = "open") ~> (body # "open")
       /\ (child = "running") ~> (child = "reaped")

\* A session in which the copy and the wait both failed: the output has
\* ended, the task is over and the child is reaped.
C15_Witness ==
  /\ Transcoded
  /\ warned = {"copy", "wait"}
  /\ body = "ended"
  /\ feeder = "done"
  /\ child = "reaped"

(***************************************************************************)
(* C16: when the client goes away in the middle of a transcoded stream and *)
(* the response body is dropped, the task that copies the input ends and   *)
(* the encoder process ends and is reaped; neither is left running.  The   *)
(* encoder is granted to run: to read, to write and to exit at the end of  *)
(* its input.                                                              *)
(***************************************************************************)
C16_DisconnectEndsTaskAndChild ==
  EncoderRuns =>
    ((Transcoded /\ body = "dropped") ~> (feeder = "done" /\ child = "reaped"))


\* The field names of the types of identifiers: one set for every variant.
FieldSets(T) ==
  CASE T = "ArtistID"   -> {{T_name}}
    [] T = "AlbumID"    -> {{T_name, T_artist}}
    [] T = "SongID"     -> {{T_path}}
    [] T = "PlaylistID" -> {{T_name}}
    [] T = "CoverArtID" -> {{T_path}, {T_name}}

\* The variant of an identifier: its type, and for a cover its own variant.
VariantOf(T, id) == IF T = "CoverArtID" THEN <<T, id.variant>> ELSE <<T, "only">>

\* The last token was converted back.
RoundTripDone == codec_pc = "decoded" /\ ident # NoIdent

\* The fields of an identifier with their values, in the order of the
\* declaration of its type.
FieldsOf(T, id) ==
  CASE T = "ArtistID"   -> <<<<T_name, id.name>>>>
    [] T = "AlbumID"    -> <<<<T_name, id.name>>, <<T_artist, id.artist>>>>
    [] T = "SongID"     -> <<<<T_path, id.path>>>>
    [] T = "PlaylistID" -> <<<<T_name, id.name>>>>
    [] T = "CoverArtID" -> IF id.variant = "Song" THEN <<<<T_path, id.path>>>>
                           ELSE <<<<T_name, id.name>>>>

\* The bytes a character takes in the shortest JSON text: two for the
\* quote, the backslash and the line feed, else those of its UTF-8 form.
ShortestLen(c) ==
  IF c \in {"DQUOTE", "BACKSLASH", "LF"} THEN 2 ELSE Len(Utf8Encode(Ord(c)))

RECURSIVE ShortestTextLen(_)
ShortestTextLen(s) ==
  IF s = <<>> THEN 0 ELSE ShortestLen(Head(s)) + ShortestTextLen(Tail(s))

\* The length of the JSON object of the members without white space: the
\* braces, for each member four quotes and a colon, and the commas between.
RECURSIVE ShortestMembersLen(_)
ShortestMembersLen(ms) ==
  IF ms = <<>> THEN 0
  ELSE ShortestTextLen(ms[1][1]) + ShortestTextLen(ms[1][2]) + 5
       + (IF Len(ms) > 1 THEN 1 ELSE 0) + ShortestMembersLen(Tail(ms))

\* The token is the one token of the identifier: base64 with its padding,
\* of a JSON object that reads as the fields of the identifier, each once
\* and in the order of the declaration, and that has no byte more than
\* the shortest text of these members.
IsCanonical(T, id, token) ==
  LET d  == base64_decode(token)
      r  == JsonRead(d.bytes)
      ms == FieldsOf(T, id)
  IN  /\ d.ok
      /\ Len(token) % 4 = 0
      /\ r.ok
      /\ r.v.type = "object"
      /\ r.next = Len(d.bytes) + 1
      /\ Len(r.v.members) = Len(ms)
      /\ \A i \in 1..Len(ms) :
           /\ r.v.members[i][1].type = "string"
           /\ r.v.members[i][2].type = "string"
           /\ r.v.members[i][1].text = ms[i][1]
           /\ r.v.members[i][2].text = ms[i][2]
      /\ Len(d.bytes) = 2 + ShortestMembersLen(ms)

\* C17: for every ID variant and every field value, the empty text
\* included, decoding the token of an identifier gives the identifier
\* back, of the same variant; and the token of an identifier is the one
\* token of its value, whether the handler made the identifier or a
\* client sent it under another token: the token the repository's tests
\* expect, the base64 text of the shortest JSON object of its fields.
C17_RoundTripAndCanonical ==
  /\ tokens # <<>> =>
       /\ IsCanonical(ident.type, ident.id, tokens[Len(tokens)])
       /\ \A k \in KnownTokens :
            (ident.type = k.type /\ ident.id = k.id)
              => tokens[Len(tokens)] = k.token
  /\ RoundTripDone =>
       /\ decoded.ok
       /\ decoded.id = ident.id
       /\ VariantOf(wire.type, decoded.id) = VariantOf(ident.type, ident.id)

\* A playlist cover of an empty name, sent by a client under a token with
\* the prefix pl-, was given the token of its value and went through the
\* conversion back.
C17_Witness ==
  /\ RoundTripDone
  /\ ident.type = "CoverArtID"
  /\ ident.id = [variant |-> "Playlist", name |-> <<>>]
  /\ ident.from.some
  /\ starts_with(ident.from.v, T_pl)
  /\ tokens = <<<<"e", "y", "J", "u", "Y", "W", "1", "l", "I", "j", "o", "i", "I",
                 "n", "0", "=">>>>
  /\ decoded.ok
  /\ decoded.id = ident.id

\* The token is valid base64.
IsBase64(s) == base64_decode(s).ok

\* The bytes are a JSON object of text members whose names are the fields
\* of the type T, each once and no other, and nothing else.
ShapeMatches(T, bs) ==
  LET r == JsonRead(bs)
  IN  /\ r.ok
      /\ r.v.type = "object"
      /\ r.next = Len(bs) + 1
      /\ \A i \in 1..Len(r.v.members) :
           r.v.members[i][1].type = "string" /\ r.v.members[i][2].type = "string"
      /\ Len(r.v.members)
           = Cardinality({r.v.members[i][1].text : i \in 1..Len(r.v.members)})
      /\ {r.v.members[i][1].text : i \in 1..Len(r.v.members)} \in FieldSets(T)

\* C18: decoding a token as a type fails with Decoding exactly when the
\* token is not valid base64, fails with Deserialization whenever the token
\* is valid base64 and its JSON is not of the shape of the type, and
\* succeeds only when the shape is that of the type.
C18_DecodeFailuresByShape ==
  codec_pc = "decoded" =>
    /\ (~decoded.ok /\ decoded.err = "Decoding") <=> ~IsBase64(wire.token)
    /\ (IsBase64(wire.token)
          /\ ~ShapeMatches(wire.type, base64_decode(wire.token).bytes))
         => (~decoded.ok /\ decoded.err = "Deserialization")
    /\ decoded.ok =>
         /\ IsBase64(wire.token)
         /\ ShapeMatches(wire.type, base64_decode(wire.token).bytes)


\* The failure is a library error that says the data is not there.
LibraryNotFound ==
  /\ failure.source = "library::Error"
  /\ \/ failure.err.variant \in {"IO", "NFS"} /\ failure.err.kind = "NotFound"
     \/ failure.err.variant = "Http" /\ failure.err.status = Some(404)

\* The message of the error shows the text of the failure.
MessageAttached(e, f) == \E i \in 1..Len(e.message) : e.message[i] = f.text

\* C19: every failure is answered with an error record of the code 0, 10,
\* 40, 50 or 70; a library error of the kind not found has the code 70;
\* every failure that is neither that nor a rejected query has the code 0
\* and carries the text of the failure in its message.
C19_FailuresMappedWithMessage ==
  fail_pc = "replied" =>
    /\ IsErrorEnvelope(fail_resp)
    /\ EnvelopePayload(fail_resp)[1][2] = fail_error
    /\ ErrorCode(fail_resp) \in {0, 10, 40, 50, 70}
    /\ LibraryNotFound => ErrorCode(fail_resp) = 70
    /\ (~LibraryNotFound /\ failure.source # "QueryRejection")
         => /\ ErrorCode(fail_resp) = 0
            /\ MessageAttached(fail_error, failure)

\* The request failed: in the guard, in an extractor or in the handler body.
RequestFailed ==
  /\ pc = "done"
  /\ \/ handler_calls = 0
     \/ bodies = 0
     \/ body_result = "Err"

\* C20: a request that fails in the guard, in an extractor or in the
\* handler body is answered with an error envelope in the format the query
\* selects, with the content type of the format; the guard, the handler
\* and the body ran at most once; and a response, once made, is not made
\* again: the next step sends it.
C20_OneErrorEnvelopePerFailure ==
  /\ [](RequestFailed =>
          /\ IsErrorEnvelope(resp)
          /\ resp.format = SelectedFormat(req.query)
          /\ resp.content_type = ContentTypeOf(resp.format)
          /\ handler_calls <= 1
          /\ bodies <= 1)
  /\ [](pc \in {"guard", "extract", "body", "await"} => resp = NoResponse)
  /\ [][resp # NoResponse => (resp' = NoResponse /\ pc' = "idle")]_vars

\* The body of setRating failed after the guard and the extractors passed,
\* and the error went out in JSON.
C20_Witness ==
  /\ RequestFailed
  /\ req.route = "setRating"
  /\ body_result = "Err"
  /\ handler_calls = 1
  /\ bodies = 1
  /\ resp.format = "json"
  /\ ErrorCode(resp) = 0


\* The request went to a route wrapped by raw_handler and passed the guard.
RawServed == pc = "done" /\ handler_calls = 1 /\ Routes[req.route].raw

\* What the body of a raw route returns when it succeeds: the cover as
\* bytes, the stream of the source or of the encoder's output; getAvatar
\* never succeeds.
RawBodyBuilt ==
  CASE req.route = "getCoverArt" -> resp.body.type = "bytes"
    [] req.route = "stream" ->
         /\ resp.body.type = "stream"
         /\ resp.body.of =
              (IF Carries(req.query, "format") /\ Value(req.query, "format") = T_raw
               THEN "source" ELSE "stdout")
    [] req.route = "getAvatar" -> FALSE

\* C21: on a raw route (getCoverArt, stream, getAvatar) a body that
\* succeeds is answered with the response it built, without the status and
\* version wrapper, whatever f and callback are, and a rejected extractor
\* or a body that fails is answered with the error envelope in the format
\* that f and callback select.
C21_RawBypassOnlyOnSuccess ==
  /\ {r \in RouteNames : Routes[r].raw} = {"getCoverArt", "stream", "getAvatar"}
  /\ RawServed =>
       /\ (bodies = 1 /\ body_result = "Ok")
            => /\ resp.kind = "raw"
               /\ DOMAIN resp = {"kind", "body"}
               /\ RawBodyBuilt
       /\ (bodies = 0 \/ body_result = "Err")
            => /\ IsErrorEnvelope(resp)
               /\ resp.format = SelectedFormat(req.query)
               /\ resp.content_type = ContentTypeOf(resp.format)
               /\ resp.format = "jsonp" => resp.callback = Value(req.query, "callback")

\* stream failed in its body, after both extractors passed, on a request
\* that selects JSONP: the error went out in the callback.
C21_Witness ==
  /\ RawServed
  /\ req.route = "stream"
  /\ extractions = 2
  /\ body_result = "Err"
  /\ resp.format = "jsonp"
  /\ ErrorCode(resp) = 0


\* The credentials the query carries, each once: u and p alone, or u, t
\* and s alone, with the configured username.
PlainOnly(q) ==
  /\ AtMostOnce(q, CredentialKeys)
  /\ Carries(q, "u") /\ Carries(q, "p")
  /\ ~Carries(q, "t") /\ ~Carries(q, "s")
  /\ Value(q, "u") = auth.username

TokenOnly(q) ==
  /\ AtMostOnce(q, CredentialKeys)
  /\ Carries(q, "u") /\ Carries(q, "t") /\ Carries(q, "s")
  /\ ~Carries(q, "p")
  /\ Value(q, "u") = auth.username

\* The guard has decided on the request.
Guarded == pc \in {"extract", "body", "await", "done"}

Admitted == handler_calls = 1

RejectedWith(code) ==
  /\ GuardRejected
  /\ IsErrorEnvelope(resp)
  /\ ErrorCode(resp) = code

\* C22, as stated: with the configured username, p equal to the password
\* is admitted, t equal to the hex MD5 of the password and the salt is
\* admitted, and a p that is neither the password nor its encoded form, or
\* a t that is not the MD5, is rejected with the code 40.
C22_ExactCredentialsAdmitted ==
  Guarded =>
    /\ (PlainOnly(req.query) /\ Value(req.query, "p") = auth.password)
         => Admitted
    /\ (TokenOnly(req.query)
          /\ Value(req.query, "t") = KnownToken(auth.password, Value(req.query, "s")))
         => Admitted
    /\ (PlainOnly(req.query)
          /\ Value(req.query, "p") \notin {auth.password, KnownEncoded(auth.password)})
         => RejectedWith(40)
    /\ (TokenOnly(req.query)
          /\ Value(req.query, "t") # KnownToken(auth.password, Value(req.query, "s")))
         => RejectedWith(40)

\* C22, amended: the same for a password that does not begin with the
\* marker enc:; a password that begins with the marker, presented as it
\* is, is read as an encoded password and rejected with the code 40, and is
\* admitted in its encoded form and by the token.
C22_ExactCredentialsUnlessMarked ==
  Guarded =>
    /\ (PlainOnly(req.query) /\ Value(req.query, "p") = auth.password)
         => IF HasMarker(auth.password) THEN RejectedWith(40) ELSE Admitted
    /\ (PlainOnly(req.query)
          /\ Value(req.query, "p") = KnownEncoded(auth.password))
         => Admitted
    /\ (TokenOnly(req.query)
          /\ Value(req.query, "t") = KnownToken(auth.password, Value(req.query, "s")))
         => Admitted
    /\ (PlainOnly(req.query)
          /\ Value(req.query, "p") \notin {auth.password, KnownEncoded(auth.password)})
         => RejectedWith(40)
    /\ (TokenOnly(req.query)
          /\ Value(req.query, "t") # KnownToken(auth.password, Value(req.query, "s")))
         => RejectedWith(40)

\* The password enc:1 is configured and presented as it is.
C22_Witness ==
  /\ RejectedWith(40)
  /\ PlainOnly(req.query)
  /\ HasMarker(auth.password)
  /\ Value(req.query, "p") = auth.password


\* A request to ping that carries none of u, p, t and s.
BarePing ==
  /\ Guarded
  /\ req.route = "ping"
  /\ \A k \in CredentialKeys : ~Carries(req.query, k)

\* C23, as stated: a request to ping without any credential is answered
\* with the failure envelope of the code 40.
C23_BarePingIs40 == BarePing => RejectedWith(40)

\* C23, amended: a request to ping without any credential is answered with
\* the failure envelope of the code 10, the required parameter u missing,
\* in the format the query selects, and the handler is not run.
C23_BarePingIs10 ==
  BarePing =>
    /\ RejectedWith(10)
    /\ EnvelopePayload(resp)[1][2].message[1] = "Required parameter is missing: "
    /\ resp.format = SelectedFormat(req.query)
    /\ bodies = 0

\* The bare request to ping was answered, in XML.
C23_Witness ==
  /\ BarePing
  /\ req.query = <<>>
  /\ pc = "done"
  /\ resp.format = "xml"
  /\ EnvelopeStatus(resp) = "failed"


\* The request is for the cover of a playlist.
PlaylistCover == cover_id.variant = "Playlist"

\* The lookup of the playlist was answered: neither the pool nor the
\* GetPlaylist command failed.
LookupFailed ==
  /\ asked = <<>>
  /\ cover_resp \in {serialize_reply(PoolTimedOut, cover_format),
                     serialize_reply(CommandFailed, cover_format)}

\* C24: for the cover of a playlist every artwork command asks for the
\* path of the first song of the playlist; when the playlist has no song
\* the answer is the error 70 and no artwork command is sent; and when the
\* backend has no artwork for the path the answer is the error 70.
C24_PlaylistCoverFromFirstSong ==
  /\ PlaylistCover =>
       /\ cover_path.some => (playlist # <<>> /\ cover_path.v = playlist[1])
       /\ \A i \in 1..Len(asked) : playlist # <<>> /\ asked[i] = playlist[1]
       /\ (cover_pc = "done" /\ playlist = <<>>) =>
            /\ asked = <<>>
            /\ chunk_log = <<>>
            /\ IsErrorEnvelope(cover_resp)
            /\ ~LookupFailed => ErrorCode(cover_resp) = 70
  /\ (cover_pc = "done" /\ chunk_log # <<>>
        /\ ~chunk_log[Len(chunk_log)].answer.some) =>
       /\ IsErrorEnvelope(cover_resp)
       /\ ErrorCode(cover_resp) = 70

\* The cover of a playlist of two songs was fetched from the first one.
C24_Witness ==
  /\ PlaylistCover
  /\ cover_pc = "done"
  /\ playlist = <<T_b_mp3, T_a_mp3>>
  /\ asked # <<>>
  /\ asked[1] = T_b_mp3
  /\ cover_resp.kind = "raw"


\* The token given to the decoder of CoverArtID begins with pl-.
Prefixed ==
  /\ codec_pc = "decoded"
  /\ wire.type = "CoverArtID"
  /\ starts_with(wire.token, T_pl)

\* The token without its first three characters.
Unprefixed == SubSeq(wire.token, 4, Len(wire.token))

\* C25: a token that decodes as a CoverArtID, of a song or of a playlist,
\* decodes to the same identifier of the same variant when pl- is put
\* before it.
C25_PrefixDecodesIdentically ==
  (Prefixed /\ CoverArtID_try_from(Unprefixed).ok) =>
    /\ decoded.ok
    /\ decoded = CoverArtID_try_from(Unprefixed)
    /\ decoded.id.variant = CoverArtID_try_from(Unprefixed).id.variant

\* The token of a song with pl- before it was decoded as a song.
C25_Witness ==
  /\ Prefixed
  /\ decoded.ok
  /\ decoded.id = [variant |-> "Song", path |-> <<"a">>]
  /\ Unprefixed = SongID_into_string([path |-> <<"a">>])

(***************************************************************************)
(* C29: the bitrate chosen by stream is an entry of the ladder 96, 112,    *)
(* 128, 160, 192 whatever maxBitRate is; a maxBitRate from 1 to 95 selects *)
(* 96; and the encoder is given the entry times 1024, a product that fits  *)
(* a u32 (the entry is at most (2^32 - 1) / 1024).                         *)
(***************************************************************************)
u32_MAX_div_1024 == 4194303

C29_BitrateInLadder ==
  ffmpeg.some =>
    /\ \E e \in Ladder :
         /\ ffmpeg.v = e * 1024
         /\ e <= u32_MAX_div_1024
    /\ (params.max_bitrate.some /\ params.max_bitrate.v \in 1..95)
         => ffmpeg.v = 96 * 1024

\* The encoder spawned for a requested maximum of 95 and for the greatest
\* maximum of the model: 96 times 1024, 192 times 1024.
C29_Witness ==
  \/ ffmpeg = Some(98304) /\ params.max_bitrate = Some(95)
  \/ ffmpeg = Some(196608) /\ params.max_bitrate = Some(2147483647)

(***************************************************************************)
(* C28: get_cover_art terminates when every chunk the backend sends holds  *)
(* at least one byte: a round of the loop that is followed by another one  *)
(* has made the accumulated bytes strictly longer, an error of the pool or *)
(* of the backend and an answer without artwork end the loop with an error *)
(* reply, and every fetch that entered the loop leaves it.                 *)
(***************************************************************************)
AnotherRound ==
  /\ cover_pc = "loop" /\ cover_await = "command"
  /\ cover_pc' = "loop" /\ cover_await' = "pool.get"

EndedInError ==
  /\ cover_pc = "done"
  /\ IsErrorEnvelope(cover_resp)
  /\ ErrorCode(cover_resp) \in {0, 70}

C28_CoverLoopTerminates ==
  /\ [][AnotherRound => Len(cover') > Len(cover)]_vars
  /\ [][(cover_pc = "loop" /\ cover_pc' = "done")
          => \/ EndedInError'
             \/ /\ cover_resp'.kind = "raw"
                /\ Len(cover') > 0
                /\ cover_resp'.body = cover']_vars
  /\ (cover_pc = "loop" ~> cover_pc = "done")

\* A fetch of three rounds that ended with the artwork.
C28_Witness ==
  /\ cover_pc = "done"
  /\ Len(chunk_log) = 3
  /\ Len(cover) = 3
  /\ cover_resp.kind = "raw"

\* What the playlist of the name holds: nothing when it does not exist.
Content(st, name) == IF st[name].some THEN st[name].v ELSE <<>>

\* The songs of s from place i on whose positions, counted from 0, are not
\* among idxs.
RECURSIVE Without(_, _, _)
Without(s, idxs, i) ==
  IF i > Len(s) THEN <<>>
  ELSE (IF usize_from(i - 1) \in idxs THEN <<>> ELSE <<s[i]>>)
       \o Without(s, idxs, i + 1)

\* update_playlist returned Ok and nobody else wrote to the playlist.
Updated ==
  /\ call.route = "updatePlaylist"
  /\ returned = Some(Ok("()"))
  /\ ~disturbed

\* The positions the request asks to remove, and the paths it asks to add.
RequestedPositions ==
  {indices_of(call.query)[i] : i \in 1..Len(indices_of(call.query))}

RequestedAdditions ==
  LET ids == songs_of(call.query, "songIdToAdd")
  IN  [i \in 1..Len(ids) |-> ids[i].path]

\* Removals, then additions, then the rename.
Rank(c) ==
  CASE c.cmd = "playlistdelete" -> 1
    [] c.cmd = "playlistadd"    -> 2
    [] c.cmd = "rename"         -> 3

RemovalsAdditionsRename ==
  \A i, j \in 1..Len(sent) :
    i < j =>
      /\ Rank(sent[i].command) <= Rank(sent[j].command)
      /\ (Rank(sent[j].command) = 1
            => DigitsAtLeast(sent[i].command.position, sent[j].command.position))

\* The name the playlist has after the request.
NameAfter == IF call.params.name.some THEN call.params.name.v ELSE call.params.playlist.name

(***************************************************************************)
(* C26: update_playlist sends the removals in descending order of index,   *)
(* before the additions, and these before the rename; and whatever the     *)
(* songIndexToRemove values and their order, the songs removed are exactly *)
(* those at the requested positions of the playlist as it was before the   *)
(* request: after a request that succeeded the playlist holds the songs of *)
(* the other positions, in order, followed by the songs added.             *)
(***************************************************************************)
C26_RemovesRequestedPositions ==
  /\ call.route = "updatePlaylist" => RemovalsAdditionsRename
  /\ Updated =>
       Content(store, NameAfter)
         = Without(Content(before, call.params.playlist.name), RequestedPositions, 1)
             \o RequestedAdditions

\* The same for the requests that name no position twice.
UpdatedWithoutRepetition ==
  /\ call.route = "updatePlaylist" => RemovalsAdditionsRename
  /\ (Updated /\ Cardinality(RequestedPositions) = Len(indices_of(call.query))) =>
       Content(store, NameAfter)
         = Without(Content(before, call.params.playlist.name), RequestedPositions, 1)
             \o RequestedAdditions

\* What the handler does next.
NextOp == IF todo = <<>> THEN "none" ELSE Head(todo).op

(***************************************************************************)
(* C27: no handler holds more than one pooled connection at a time.  A     *)
(* handler that asks the pool for a connection holds none, whether it is   *)
(* its first acquisition or a later one (the lookup and the rounds of      *)
(* getCoverArt, the two statements of getPlaylists, createPlaylist and its *)
(* getPlaylist), so a handler that waits for an exhausted pool keeps no    *)
(* connection from the others; every command sent on the pool is sent on   *)
(* the one connection held; the handlers that send on the client of the    *)
(* state (browsing) acquire and hold none; and a handler that has          *)
(* returned, with its reply or with an error of the pool, of the backend,  *)
(* of a missing song or artwork, or of ListenBrainz, holds none.           *)
(***************************************************************************)
C27_AtMostOneConnection ==
  /\ held \in {0, 1}
  /\ NextOp = "get" => held = 0
  /\ NextOp \in {"command_list", "command_list_of_answer", "artwork", "format",
                 "feedback", "drop"} => held = 1
  /\ NextOp \in {"listen", "playing_now", "client_command_list"} => held = 0
  /\ NextOp = "first" => held = (IF call.route = "setRating" THEN 1 ELSE 0)
  /\ returned.some => held = 0
  /\ \A i \in 1..Len(sent) :
       IF sent[i].on = "pool" THEN sent[i].acquisition >= 1
       ELSE held = 0 /\ gets = 0

\* getCoverArt of a playlist returned not_found from its second round: it
\* acquired three connections in turn, the pool is exhausted and the
\* handler holds none.
C27_Witness ==
  /\ call.route = "getCoverArt"
  /\ call.params.cover.variant = "Playlist"
  /\ gets = 3
  /\ returned = Some(Err(not_found))
  /\ held = 0
  /\ exhausted

\* The paths of the songId parameters that decode, in the order of the
\* request.
RequestedSongs ==
  LET ids == songs_of(call.query, "songId")
  IN  [i \in 1..Len(ids) |-> ids[i].path]

\* create_playlist returned Ok and nobody else wrote to the playlist.
Created ==
  /\ call.route = "createPlaylist"
  /\ returned = Some(Ok("GetPlaylist"))
  /\ ~disturbed

\* The queue is saved under the name, the playlist is emptied and the songs
\* are added, in this order and on the first connection acquired.
SavedClearedAdded ==
  LET name == call.params.playlist
      n == Len(RequestedSongs)
  IN  /\ Len(sent) >= n + 2
      /\ sent[1].command = SaveQueueAsPlaylist(name)
      /\ sent[2].command = RemoveFromPlaylist_range_full(name)
      /\ \A i \in 1..n : sent[2 + i].command = AddToPlaylist(name, RequestedSongs[i])
      /\ \A i \in 1..(n + 2) : sent[i].acquisition = 1

(***************************************************************************)
(* C30: when createPlaylist succeeds and nobody else writes to the         *)
(* playlist, the playlist of the name holds exactly the songs of the       *)
(* songId parameters that decode, in the order of the request, whatever    *)
(* the queue held: the queue is saved under the name, the playlist is      *)
(* emptied and the songs are added, all on one connection.  When no songId *)
(* parameter decodes the handler returns the error 10 and neither asks the *)
(* pool for a connection nor sends a command.                              *)
(***************************************************************************)
C30_CreatedPlaylistHoldsRequestedSongs ==
  /\ Created =>
       /\ store[call.params.playlist] = Some(RequestedSongs)
       /\ SavedClearedAdded
  /\ (call.route = "createPlaylist" /\ RequestedSongs = <<>>) =>
       /\ gets = 0
       /\ sent = <<>>
       /\ returned.some =>
            /\ returned.v = Err(missing_parameter("songId is missing"))
            /\ returned.v.err.code = 10

\* A playlist created with a.mp3 and b.mp3 while the queue held b.mp3 and
\* a.mp3.
C30_Witness ==
  /\ Created
  /\ queue = <<T_b_mp3, T_a_mp3>>
  /\ Len(QueryValues(call.query, "songId")) = 2
  /\ store[T_mix] = Some(<<T_a_mp3, T_b_mp3>>)

=========================================================================
